---- MODULE Spec2Model ----
(***************************************************************************)
(* Blind rendezvous signaling service (crates/signaling).                  *)
(*                                                                         *)
(* The model follows RendezvousService (init_connection, join_connection,  *)
(* send_message, recv_messages) on top of RedisRepository, together with   *)
(* the HTTP handlers of server.rs that translate the outcome into a status *)
(* code and call PushHub::notify.                                          *)
(*                                                                         *)
(* Every request is served by its own task; a task suspends at every store *)
(* command, so one action of the model is one store command together with  *)
(* the local code that runs after its reply, up to the next store command. *)
(* The store is the Redis keyspace: string keys with a TTL, and lists.     *)
(* Time is counted in seconds; the epoch-millisecond values of the code    *)
(* are seconds * MsPerSec.                                                 *)
(***************************************************************************)
EXTENDS Integers, Sequences, FiniteSets, TLC

\* ---------------------------------------------------------------- bounds

\* Requests started in one behaviour.
MaxOps == 4
\* The clock stops advancing here.
MaxTime == 2
\* config.mailbox_ttl, in seconds (RendezvousService::mailbox_ttl_secs).
MailboxTtlSecs == 1
\* config.session_ttl, in seconds (SessionRegistry::session_ttl).
SessionTtlSecs == 2
\* Messages a broadcast channel keeps for a receiver that has not read them:
\* broadcast::channel(100) in PushHub::subscribe, scaled down.
ChannelCapacity == 1
MaxFileSize == 2
MaxMsgs == 4

\* ------------------------------------------------------- program constants

\* TTL of the rendezvous mapping written by init_connection.
RendezvousTtlSecs == 300
\* `* 1000` in init_connection: seconds to epoch milliseconds.
MsPerSec == 1000

\* ------------------------------------------------------------ input sets

\* The request tasks that may run at the same time.  Tasks are anonymous: a
\* request is served by the lowest free one.
Procs == {1, 2}
\* Rendezvous tokens a client may present.
Tokens == {"T"}
\* Payloads of send requests.
Ciphertexts == {"ct1", "ct2"}
\* Mailbox ids: gen_mailbox_id draws 128 random bits; the n-th id drawn is
\* named n.  UnknownId is an id no mailbox was ever minted with.
MailboxIds == 1..MaxOps
UnknownId == MaxOps + 1

\* Option<T>
None == <<>>
Some(x) == <<x>>
IsSome(o) == o # <<>>
Unwrap(o) == o[1]

VARIABLES
    now,        \* wall clock and store clock, seconds
    metaKV,     \* P:mailbox_meta:{id}  -> [val: JSON MailboxState, exp: deadline]
    listKV,     \* P:mailbox_msgs:{id}  -> [items: Seq(JSON), exp: Option(deadline)]
    rdvKV,      \* P:rendezvous:{token} -> [val: mailbox id, exp: deadline]
    proc,       \* per task: program position and locals
    reply,      \* the last HTTP response sent; n counts the responses
    nextId,     \* number of mailbox ids drawn so far, plus one
    ops,        \* requests started so far
    known,      \* mailbox ids handed to a client in a 200 response
    pushed,     \* the calls of PushHub::notify, in order: <<mailbox id, payload>>
    tokGen,     \* history: number of save_rendezvous commands executed per token
    inits,      \* history: the successful init responses, each with the mapping
                \* its save_rendezvous found under the token (replaced)
    joins,      \* history: the successful join responses
    acked,      \* history: <<peer id, entry>> of every send answered 202
    channels,   \* PushHub.inner: the mailbox ids that have a broadcast channel slot
    subs,       \* per websocket client: its upgrade state, its mailbox, the messages
                \* waiting in its broadcast receiver (queue, lagged), the text frames
                \* sent on its socket, and (history) the number of notify calls made
                \* before its upgrade was answered and before it subscribed
    appended,   \* history: <<mailbox id, entry>> of every RPUSH that extended a list
    lastRecv,   \* history: per mailbox, the body of the last recv answered 200 since
                \* the last append to its list, how many recvs returned it, and
                \* whether the list key was deleted or evicted since (removed)
    clients,    \* InMemorySessionRepository.clients: client id -> ClientRecord
    nextClient, \* number of client ids drawn so far, plus one
    mailbox_ttl_secs, \* RendezvousService.mailbox_ttl_secs, fixed at start-up
    messages,   \* InMemorySessionRepository.messages: the queue of SignalEnvelopes
    rtask,      \* the registry requests in progress: position and locals
    pruned,     \* history: the client ids prune_stale_clients has removed
    twin,       \* the crate's handlers and the inline handlers, run side by side
    xfer        \* client-core: one call of FileTransferService::receive_file

vars == <<now, metaKV, listKV, rdvKV, proc, reply, nextId, ops, known, pushed,
          channels, subs, appended, tokGen, inits, joins, acked, lastRecv,
          clients, nextClient, mailbox_ttl_secs, messages, rtask, pruned,
          twin, xfer>>

store == <<metaKV, listKV, rdvKV>>
hub == <<channels, subs>>
registry == <<clients, nextClient>>
history == <<appended, tokGen, inits, joins, acked, lastRecv>>
signals == <<messages, rtask, pruned>>
\* The configuration, and the state kept apart from the running server.
elsewhere == <<mailbox_ttl_secs, twin, xfer>>
\* What the rendezvous and websocket handlers never write.
outside == <<elsewhere, signals>>

\* ------------------------------------------------------------ serde_json

\* serde_json::to_string(&MailboxState): the fields in declaration order.
SerializeState(s) ==
    <<s.mailbox_id, s.peer_mailbox_id, s.created_at_epoch_ms, s.expires_at_epoch_ms>>

\* serde_json::from_str::<MailboxState>: None when the text is no MailboxState.
DeserializeState(j) ==
    IF Len(j) = 4
    THEN Some([mailbox_id |-> j[1], peer_mailbox_id |-> j[2],
               created_at_epoch_ms |-> j[3], expires_at_epoch_ms |-> j[4]])
    ELSE None

\* serde_json::to_string(&MailboxMessageStored)
SerializeMessage(m) ==
    <<m.from_mailbox_id, m.ciphertext_b64, m.sequence, m.timestamp_epoch_ms>>

\* serde_json::from_str::<MailboxMessageStored>(..).ok()
DeserializeMessage(j) ==
    IF Len(j) = 4
    THEN Some([from_mailbox_id |-> j[1], ciphertext_b64 |-> j[2],
               sequence |-> j[3], timestamp_epoch_ms |-> j[4]])
    ELSE None

\* ---------------------------------------------------------- store commands

\* SETEX key val ttl: unconditional write, TTL (re)set.
SetEx(kv, key, val, ttl) ==
    [k \in DOMAIN kv \cup {key} |->
        IF k = key THEN [val |-> val, exp |-> now + ttl] ELSE kv[k]]

\* GET key
Get(kv, key) == IF key \in DOMAIN kv THEN Some(kv[key].val) ELSE None

\* DEL key
Del(kv, key) == [k \in DOMAIN kv \ {key} |-> kv[k]]

\* LLEN key: 0 for a missing key.
LLen(kv, key) == IF key \in DOMAIN kv THEN Len(kv[key].items) ELSE 0

\* RPUSH key val: appends at the tail; a new key is created without a TTL, an
\* existing key keeps the TTL it has.
RPush(kv, key, val) ==
    [k \in DOMAIN kv \cup {key} |->
        IF k # key THEN kv[k]
        ELSE IF key \in DOMAIN kv
             THEN [items |-> Append(kv[key].items, val), exp |-> kv[key].exp]
             ELSE [items |-> <<val>>, exp |-> None]]

\* EXPIRE key ttl: no effect on a missing key.
Expire(kv, key, ttl) ==
    [k \in DOMAIN kv |->
        IF k = key THEN [items |-> kv[k].items, exp |-> Some(now + ttl)] ELSE kv[k]]

\* LRANGE key 0 -1
LRange(kv, key) == IF key \in DOMAIN kv THEN kv[key].items ELSE <<>>

\* ------------------------------------------------------ RedisRepository

\* save_mailbox_meta(state, ttl_secs)
save_mailbox_meta(kv, state, ttl) == SetEx(kv, state.mailbox_id, SerializeState(state), ttl)

\* get_mailbox_meta(mailbox_id) -> Option<MailboxState>.  Only serialized
\* MailboxState values are ever stored under a meta key.
get_mailbox_meta(kv, id) ==
    IF IsSome(Get(kv, id)) THEN DeserializeState(Unwrap(Get(kv, id))) ELSE None

\* clear_mailbox_messages(mailbox_id)
clear_mailbox_messages(kv, id) == Del(kv, id)

\* Variant of save_rendezvous that writes nothing.
save_rendezvous_lost(kv, token, id, ttl) == kv

\* save_rendezvous(token, mailbox_id, ttl_secs)
save_rendezvous(kv, token, id, ttl) == SetEx(kv, token, id, ttl)

\* get_and_delete_rendezvous, first command: GET
rendezvous_get(kv, token) == Get(kv, token)

\* Variant of rendezvous_del that leaves the token mapping in place.
rendezvous_del_kept(kv, token) == kv

\* get_and_delete_rendezvous, second command (only if the GET found a value): DEL
rendezvous_del(kv, token) == Del(kv, token)

\* get_message_count(mailbox_id)
get_message_count(kv, id) == LLen(kv, id)

\* Variant of push_message_rpush that appends the entry twice.
push_message_rpush_twice(kv, id, msg) ==
    RPush(RPush(kv, id, SerializeMessage(msg)), id, SerializeMessage(msg))

\* Variant of push_message_rpush that loses the entry.
push_message_rpush_lost(kv, id, msg) == kv

\* push_message, first command: RPUSH of the serialized message
push_message_rpush(kv, id, msg) == RPush(kv, id, SerializeMessage(msg))

\* push_message, second command: EXPIRE
push_message_expire(kv, id, ttl) == Expire(kv, id, ttl)

RECURSIVE ParseAll(_)
\* filter_map(|j| serde_json::from_str(&j).ok()).collect()
ParseAll(js) ==
    IF js = <<>> THEN <<>>
    ELSE IF IsSome(DeserializeMessage(Head(js)))
         THEN <<Unwrap(DeserializeMessage(Head(js)))>> \o ParseAll(Tail(js))
         ELSE ParseAll(Tail(js))

\* Variant of get_messages that deletes the list it has read.
get_messages_destructive(kv, id) == [out |-> ParseAll(LRange(kv, id)), kv |-> Del(kv, id)]

\* get_messages(mailbox_id): the messages returned (out) and the keyspace the
\* command leaves behind (kv); LRANGE reads only.
get_messages(kv, id) == [out |-> ParseAll(LRange(kv, id)), kv |-> kv]

\* ------------------------------------------------------------- responses

\* rendezvous_err: RendezvousError -> StatusCode
rendezvous_err(err) ==
    CASE err = "MailboxNotFound"      -> 404
      [] err = "SessionExpired"       -> 410
      [] err = "InvalidToken"         -> 404
      [] err = "SessionAlreadyPaired" -> 409
      [] err = "NoPeerConnected"      -> 409
      [] OTHER                        -> 500

NoState == [mailbox_id |-> UnknownId, peer_mailbox_id |-> None,
            created_at_epoch_ms |-> 0, expires_at_epoch_ms |-> 0]

\* A task between two requests.
Idle ==
    [pc |-> "idle", op |-> "none", tok |-> "", mbox |-> UnknownId, ct |-> "",
     id |-> UnknownId, peer |-> UnknownId, st |-> NoState, seq |-> 0, ts |-> 0,
     late |-> FALSE, gen |-> 0, early |-> {}, client |-> 0, session |-> <<>>]

NoReply ==
    [n |-> 0, op |-> "none", tok |-> "", mbox |-> UnknownId, ct |-> "",
     late |-> FALSE, status |-> 0, err |-> "", body |-> <<>>,
     client |-> 0, session |-> <<>>]

\* The handler's Err(..) arm: .map_err(rendezvous_err)?
Failed(req, err) ==
    [n |-> reply.n + 1, op |-> req.op, tok |-> req.tok, mbox |-> req.mbox,
     ct |-> req.ct, late |-> req.late,
     status |-> rendezvous_err(err), err |-> err, body |-> <<>>,
     client |-> req.client, session |-> req.session]

\* The handler's Ok(..) arm.
Done(req, status, body) ==
    [n |-> reply.n + 1, op |-> req.op, tok |-> req.tok, mbox |-> req.mbox,
     ct |-> req.ct, late |-> req.late,
     status |-> status, err |-> "Ok", body |-> body,
     client |-> req.client, session |-> req.session]

CanStart(p) ==
    /\ proc[p].pc = "idle"
    /\ ops < MaxOps
    /\ \A q \in Procs : q < p => proc[q].pc # "idle"

\* SystemTime::now().duration_since(UNIX_EPOCH).as_millis()
NowMs == now * MsPerSec

\* Websocket clients; an upgrade request comes from the lowest one that has
\* no connection yet.
Subs == {1, 2}

\* A websocket client that has not asked for an upgrade.
NoSub == [pc |-> "none", mbox |-> UnknownId, frames |-> <<>>, queue |-> <<>>,
          lagged |-> FALSE, upgradedAt |-> 0, subscribedAt |-> 0]

\* PushHub::subscribe: the channel slot of the mailbox is created if absent.
subscribe(ch, mailbox_id) == ch \cup {mailbox_id}

\* broadcast::Sender::send as one receiver sees it: the value is queued; when
\* the receiver already has ChannelCapacity unread values, the oldest one is
\* overwritten and the receiver has lagged.
broadcast_send(sb, msg) ==
    IF Len(sb.queue) < ChannelCapacity
    THEN [sb EXCEPT !.queue = Append(@, msg)]
    ELSE [sb EXCEPT !.queue = Append(Tail(@), msg), !.lagged = TRUE]

\* Variant of notify that sends on every channel slot.
notify_every_channel(ch, sb, mailbox_id, msg) ==
    [s \in Subs |->
        IF sb[s].pc = "subscribed" THEN broadcast_send(sb[s], msg) ELSE sb[s]]

\* PushHub::notify: tx.send(msg) on the channel slot of the mailbox, if there is
\* one; every receiver subscribed to it gets the message.
notify(ch, sb, mailbox_id, msg) ==
    IF mailbox_id \in ch
    THEN [s \in Subs |->
            IF sb[s].pc = "subscribed" /\ sb[s].mbox = mailbox_id
            THEN broadcast_send(sb[s], msg)
            ELSE sb[s]]
    ELSE sb

\* Variant of recv that goes on with the values left after a lag.
recv_after_gap(sb) ==
    [res |-> Some(Head(sb.queue)), sub |-> [sb EXCEPT !.queue = Tail(@), !.lagged = FALSE]]

\* broadcast::Receiver::recv when a value is there or the receiver has lagged:
\* Err(Lagged) once the receiver has lagged, else the oldest unread value.
recv(sb) ==
    IF sb.lagged
    THEN [res |-> None, sub |-> [sb EXCEPT !.lagged = FALSE]]
    ELSE [res |-> Some(Head(sb.queue)), sub |-> [sb EXCEPT !.queue = Tail(@)]]

\* What a websocket client's receiver was handed so far and has not lost.
Received(sb) == sb.frames \o sb.queue

\* History: the <<list key, entry>> pairs by which kvNew extends a list of kvOld.
Extended(kvOld, kvNew) ==
    {<<m, LRange(kvNew, m)[Len(LRange(kvNew, m))]>> :
        m \in {k \in DOMAIN kvNew : Len(LRange(kvNew, k)) = Len(LRange(kvOld, k)) + 1}}

\* History: the list keys of kvOld that are gone in kvNew are marked removed.
MarkRemoved(kvOld, kvNew) ==
    [m \in MailboxIds |->
        IF IsSome(lastRecv[m]) /\ m \in DOMAIN kvOld /\ m \notin DOMAIN kvNew
        THEN Some([Unwrap(lastRecv[m]) EXCEPT !.removed = TRUE])
        ELSE lastRecv[m]]

\* ------------------------------------------------- init_connection, connection_init

\* Request arrival: gen_mailbox_id, the clock read and the MailboxState.
InitStart(p, tok) ==
    /\ CanStart(p)
    /\ nextId \in MailboxIds
    /\ proc' = [proc EXCEPT ![p] =
          [Idle EXCEPT
              !.pc = "i_save_meta", !.op = "init", !.tok = tok, !.id = nextId,
              !.st = [mailbox_id |-> nextId, peer_mailbox_id |-> None,
                      created_at_epoch_ms |-> NowMs,
                      expires_at_epoch_ms |-> NowMs + mailbox_ttl_secs * MsPerSec]]]
    /\ nextId' = nextId + 1
    /\ ops' = ops + 1
    /\ UNCHANGED <<outside, registry, now, store, reply, known, pushed, hub, history>>

InitSaveMeta(p) ==
    /\ proc[p].pc = "i_save_meta"
    /\ metaKV' = save_mailbox_meta(metaKV, proc[p].st, mailbox_ttl_secs)
    /\ proc' = [proc EXCEPT ![p].pc = "i_clear"]
    /\ UNCHANGED <<outside, registry, now, listKV, rdvKV, reply, nextId, ops, known, pushed, hub, history>>

InitClear(p) ==
    /\ proc[p].pc = "i_clear"
    /\ listKV' = clear_mailbox_messages(listKV, proc[p].id)
    /\ proc' = [proc EXCEPT ![p].pc = "i_save_rdv"]
    /\ lastRecv' = MarkRemoved(listKV, listKV')
    /\ UNCHANGED <<outside, registry, now, metaKV, rdvKV, reply, nextId, ops, known, pushed, hub,
                   appended, tokGen, inits, joins, acked>>

\* save_rendezvous, then Ok(ConnectionInitResponse) and the 200 answer.
InitSaveRendezvous(p) ==
    /\ proc[p].pc = "i_save_rdv"
    /\ rdvKV' = save_rendezvous(rdvKV, proc[p].tok, proc[p].id, RendezvousTtlSecs)
    /\ reply' = Done(proc[p], 200, <<proc[p].id, proc[p].st.expires_at_epoch_ms>>)
    /\ proc' = [proc EXCEPT ![p] = Idle]
    /\ known' = known \cup {proc[p].id}
    /\ tokGen' = [tokGen EXCEPT ![proc[p].tok] = @ + 1]
    /\ inits' = inits \cup {[tok |-> proc[p].tok, gen |-> tokGen[proc[p].tok] + 1,
                             mailbox_id |-> proc[p].id,
                             replaced |-> rendezvous_get(rdvKV, proc[p].tok),
                             expires_at_epoch_ms |-> proc[p].st.expires_at_epoch_ms]}
    /\ UNCHANGED <<outside, registry, now, metaKV, listKV, nextId, ops, pushed, hub, appended, joins, acked, lastRecv>>

\* ------------------------------------------- SessionRegistry, connection_init

\* Uuid::new_v4() client ids, and the session token drawn with each of them.
ClientIds == {1, 2}
SessionToken(c) == <<"session", c>>
SessionTokens == {SessionToken(c) : c \in ClientIds}

\* registry_err: RegistryError -> StatusCode
registry_err(err) ==
    CASE err = "ClientNotFound" -> 404
      [] err = "InvalidToken"   -> 401

\* InMemorySessionRepository::get_client
get_client(cl, client_id) ==
    IF client_id \in DOMAIN cl THEN Some(cl[client_id]) ELSE None

\* SessionRegistry::verify_client, which verify_session only wraps.
verify_client(cl, client_id, session_token) ==
    IF ~IsSome(get_client(cl, client_id)) THEN "ClientNotFound"
    ELSE IF Unwrap(get_client(cl, client_id)).session_token # session_token
         THEN "InvalidToken"
         ELSE "Ok"

verify_session(cl, client_id, session_token) == verify_client(cl, client_id, session_token)

\* InMemorySessionRepository::prune_stale_clients at time t
prune_stale_clients(cl, t, expiration_threshold) ==
    [c \in {x \in DOMAIN cl : ~(t - cl[x].last_heartbeat >= expiration_threshold)} |-> cl[c]]

\* The ids prune_stale_clients returns: the clients it removed.
stale_clients(cl, t, expiration_threshold) ==
    {x \in DOMAIN cl : t - cl[x].last_heartbeat >= expiration_threshold}

\* InMemorySessionRepository::prune_messages_for_clients
prune_messages_for_clients(msgs, client_ids) ==
    SelectSeq(msgs, LAMBDA msg : msg.from \notin client_ids /\ msg.to \notin client_ids)

\* SessionRegistry::register with its handler: prune_expired, then insert_client.
Register ==
    /\ ops < MaxOps
    /\ nextClient \in ClientIds
    /\ ops' = ops + 1
    /\ nextClient' = nextClient + 1
    /\ clients' =
          LET kept == prune_stale_clients(clients, now, SessionTtlSecs)
          IN  [c \in DOMAIN kept \cup {nextClient} |->
                  IF c = nextClient
                  THEN [session_token |-> SessionToken(nextClient),
                        registered_at |-> now, last_heartbeat |-> now]
                  ELSE kept[c]]
    /\ messages' = prune_messages_for_clients(messages,
                        stale_clients(clients, now, SessionTtlSecs))
    /\ pruned' = pruned \cup stale_clients(clients, now, SessionTtlSecs)
    /\ reply' = Done([Idle EXCEPT !.op = "register"], 200,
                     <<nextClient, SessionToken(nextClient)>>)
    /\ UNCHANGED <<elsewhere, rtask, now, store, proc, nextId, known, pushed, hub, history>>

\* connection_init when verify_session fails: .map_err(registry_err)? answers
\* before init_connection is called.
InitRejected(p, c, st, tok) ==
    /\ CanStart(p)
    /\ verify_session(clients, c, st) # "Ok"
    /\ ops' = ops + 1
    /\ reply' = [Failed([Idle EXCEPT !.op = "init", !.tok = tok, !.client = c,
                                     !.session = st],
                        verify_session(clients, c, st))
                    EXCEPT !.status = registry_err(verify_session(clients, c, st))]
    /\ UNCHANGED <<outside, registry, now, store, proc, nextId, known, pushed, hub, history>>

\* connection_init when verify_session passes: init_connection starts.
InitAccepted(p, c, st, tok) ==
    /\ verify_session(clients, c, st) = "Ok"
    /\ InitStart(p, tok)

\* ------------------------------------ register, heartbeat, signal, signal/fetch

\* A registry request not in progress.
RIdle == [pc |-> "idle", op |-> "none", client |-> 0, session |-> <<>>, to |-> 0,
          stale |-> {}]

RegCanStart(p) ==
    /\ rtask[p].pc = "idle"
    /\ ops < MaxOps
    /\ \A q \in Procs : q < p => rtask[q].pc # "idle"

\* The step after prune_expired: register inserts, the others verify first.
AfterPrune(op) == IF op = "register" THEN "g_write" ELSE "g_verify"

\* Request arrival and prune_expired's prune_stale_clients, under the write
\* lock of clients; the ids removed are kept for prune_messages_for_clients.
RegArrive(p, op, c, st, to) ==
    /\ RegCanStart(p)
    /\ ops' = ops + 1
    /\ LET stale == stale_clients(clients, now, SessionTtlSecs)
       IN  /\ clients' = prune_stale_clients(clients, now, SessionTtlSecs)
           /\ pruned' = pruned \cup stale
           /\ rtask' = [rtask EXCEPT ![p] =
                  [pc |-> IF stale # {} THEN "g_prune_msgs" ELSE AfterPrune(op),
                   op |-> op, client |-> c, session |-> st, to |-> to,
                   stale |-> stale]]
    /\ UNCHANGED <<elsewhere, messages, nextClient, now, store, proc, reply, nextId,
                   known, pushed, hub, history>>

\* POST /register: the request names no client.
RegisterArrive(p) ==
    /\ nextClient + Cardinality({q \in Procs : rtask[q].op = "register"}) \in ClientIds
    /\ RegArrive(p, "register", 0, <<>>, 0)

\* POST /heartbeat and POST /signal/fetch: client_id and session_token.
ClientArrive(p, op, c, st) == RegArrive(p, op, c, st, 0)

\* POST /signal: envelope.from, session_token and envelope.to.
SignalArrive(p, c, st, to) == RegArrive(p, "signal", c, st, to)

\* prune_expired's prune_messages_for_clients, under the write lock of messages.
RegPruneMessages(p) ==
    /\ rtask[p].pc = "g_prune_msgs"
    /\ messages' = prune_messages_for_clients(messages, rtask[p].stale)
    /\ rtask' = [rtask EXCEPT ![p].pc = AfterPrune(rtask[p].op)]
    /\ UNCHANGED <<elsewhere, pruned, registry, now, store, proc, reply, nextId, ops,
                   known, pushed, hub, history>>

\* The request of a registry task, as the reply echoes it.
RegReq(p) ==
    [Idle EXCEPT !.op = rtask[p].op, !.client = rtask[p].client,
                 !.session = rtask[p].session]

\* An Err of the registry answered through registry_err.
RegFailed(p, err) == [Failed(RegReq(p), err) EXCEPT !.status = registry_err(err)]

\* verify_client(client_id, session_token) of heartbeat, enqueue_signal and
\* fetch_signals, under the read lock of clients.
RegVerify(p) ==
    /\ rtask[p].pc = "g_verify"
    /\ LET res == verify_client(clients, rtask[p].client, rtask[p].session)
       IN  IF res = "Ok"
           THEN /\ rtask' = [rtask EXCEPT ![p].pc = "g_write"]
                /\ UNCHANGED reply
           ELSE /\ rtask' = [rtask EXCEPT ![p] = RIdle]
                /\ reply' = RegFailed(p, res)
    /\ UNCHANGED <<elsewhere, messages, pruned, registry, now, store, proc, nextId, ops,
                   known, pushed, hub, history>>

\* register: get_client_count and insert_client; the handler answers 200.
RegisterInsert(p) ==
    /\ rtask[p].pc = "g_write"
    /\ rtask[p].op = "register"
    /\ clients' = [c \in DOMAIN clients \cup {nextClient} |->
                      IF c = nextClient
                      THEN [session_token |-> SessionToken(nextClient),
                            registered_at |-> now, last_heartbeat |-> now]
                      ELSE clients[c]]
    /\ nextClient' = nextClient + 1
    /\ reply' = Done(RegReq(p), 200, <<nextClient, SessionToken(nextClient)>>)
    /\ rtask' = [rtask EXCEPT ![p] = RIdle]
    /\ UNCHANGED <<elsewhere, messages, pruned, now, store, proc, nextId, ops,
                   known, pushed, hub, history>>

\* heartbeat: update_client_heartbeat(client_id, Instant::now()), which is
\* false when the record has gone since verify_client.
HeartbeatUpdate(p) ==
    /\ rtask[p].pc = "g_write"
    /\ rtask[p].op = "heartbeat"
    /\ IF rtask[p].client \in DOMAIN clients
       THEN /\ clients' = [clients EXCEPT ![rtask[p].client].last_heartbeat = now]
            /\ reply' = Done(RegReq(p), 200, <<>>)
       ELSE /\ UNCHANGED clients
            /\ reply' = RegFailed(p, "ClientNotFound")
    /\ rtask' = [rtask EXCEPT ![p] = RIdle]
    /\ UNCHANGED <<elsewhere, messages, pruned, nextClient, now, store, proc, nextId, ops,
                   known, pushed, hub, history>>

\* enqueue_signal: created_at_epoch_ms is set and add_message pushes the
\* envelope; the handler answers 202.
SignalAdd(p) ==
    /\ rtask[p].pc = "g_write"
    /\ rtask[p].op = "signal"
    /\ messages' = Append(messages, [from |-> rtask[p].client, to |-> rtask[p].to,
                                      created_at_epoch_ms |-> NowMs])
    /\ reply' = Done(RegReq(p), 202, <<>>)
    /\ rtask' = [rtask EXCEPT ![p] = RIdle]
    /\ UNCHANGED <<elsewhere, pruned, registry, now, store, proc, nextId, ops,
                   known, pushed, hub, history>>

\* InMemorySessionRepository::get_messages_for_client: what it collects and
\* what it retains.
get_messages_for_client(msgs, client_id) ==
    [collected |-> SelectSeq(msgs, LAMBDA msg : msg.to = client_id),
     messages  |-> SelectSeq(msgs, LAMBDA msg : msg.to # client_id)]

\* fetch_signals: get_messages_for_client; the handler answers 200.
FetchCollect(p) ==
    /\ rtask[p].pc = "g_write"
    /\ rtask[p].op = "fetch"
    /\ messages' = get_messages_for_client(messages, rtask[p].client).messages
    /\ reply' = Done(RegReq(p), 200,
                     <<get_messages_for_client(messages, rtask[p].client).collected>>)
    /\ rtask' = [rtask EXCEPT ![p] = RIdle]
    /\ UNCHANGED <<elsewhere, pruned, registry, now, store, proc, nextId, ops,
                   known, pushed, hub, history>>

\* ------------------------------------------------- join_connection, connection_join

\* Request arrival and get_and_delete_rendezvous' GET.  late (history): a join
\* with this token, consuming the mapping of the token's latest init, has
\* already been answered 200.
JoinGet(p, tok) ==
    /\ CanStart(p)
    /\ ops' = ops + 1
    /\ LET val == rendezvous_get(rdvKV, tok)
           req == [Idle EXCEPT
                      !.op = "join", !.tok = tok, !.gen = tokGen[tok],
                      !.late = \E j \in joins : j.tok = tok /\ j.gen = tokGen[tok],
                      !.early = {s \in Subs : subs[s].pc # "none"}]
       IN  IF IsSome(val)
           THEN /\ proc' = [proc EXCEPT ![p] =
                      [req EXCEPT !.pc = "j_del", !.id = Unwrap(val)]]
                /\ UNCHANGED reply
           ELSE /\ reply' = Failed(req, "InvalidToken")
                /\ proc' = [proc EXCEPT ![p] = Idle]
    /\ UNCHANGED <<outside, registry, now, store, nextId, known, pushed, hub, history>>

\* get_and_delete_rendezvous' DEL.
JoinDel(p) ==
    /\ proc[p].pc = "j_del"
    /\ rdvKV' = rendezvous_del(rdvKV, proc[p].tok)
    /\ proc' = [proc EXCEPT ![p].pc = "j_get_meta"]
    /\ UNCHANGED <<outside, registry, now, metaKV, listKV, reply, nextId, ops, known, pushed, hub, history>>

\* Variant of join_precheck without the already-paired check.
join_precheck_unpaired(st) ==
    IF ~IsSome(st) THEN "MailboxNotFound" ELSE "Ok"

\* The check of join_connection after get_mailbox_meta.
join_precheck(st) ==
    IF ~IsSome(st) THEN "MailboxNotFound"
    ELSE IF IsSome(Unwrap(st).peer_mailbox_id) THEN "SessionAlreadyPaired"
    ELSE "Ok"

\* get_mailbox_meta(initiator), the already-paired check, gen_mailbox_id and
\* `initiator_state.peer_mailbox_id = Some(responder_mailbox_id)`.
JoinGetMeta(p) ==
    /\ proc[p].pc = "j_get_meta"
    /\ LET st  == get_mailbox_meta(metaKV, proc[p].id)
           res == join_precheck(st)
       IN  IF res = "Ok"
           THEN /\ nextId \in MailboxIds
                /\ proc' = [proc EXCEPT
                      ![p].pc = "j_save_init",
                      ![p].peer = nextId,
                      ![p].st = [Unwrap(st) EXCEPT !.peer_mailbox_id = Some(nextId)]]
                /\ nextId' = nextId + 1
                /\ UNCHANGED reply
           ELSE /\ reply' = Failed(proc[p], res)
                /\ proc' = [proc EXCEPT ![p] = Idle]
                /\ UNCHANGED nextId
    /\ UNCHANGED <<outside, registry, now, store, ops, known, pushed, hub, history>>

\* save_mailbox_meta(initiator_state)
JoinSaveInitiator(p) ==
    /\ proc[p].pc = "j_save_init"
    /\ metaKV' = save_mailbox_meta(metaKV, proc[p].st, mailbox_ttl_secs)
    /\ proc' = [proc EXCEPT ![p].pc = "j_save_resp"]
    /\ UNCHANGED <<outside, registry, now, listKV, rdvKV, reply, nextId, ops, known, pushed, hub, history>>

\* The responder's MailboxState, built from the initiator's.
responder_state(initiator_state, initiator_mailbox_id, responder_mailbox_id) ==
    [mailbox_id |-> responder_mailbox_id,
     peer_mailbox_id |-> Some(initiator_mailbox_id),
     created_at_epoch_ms |-> initiator_state.created_at_epoch_ms,
     expires_at_epoch_ms |-> initiator_state.expires_at_epoch_ms]

\* save_mailbox_meta(responder_state)
JoinSaveResponder(p) ==
    /\ proc[p].pc = "j_save_resp"
    /\ metaKV' = save_mailbox_meta(metaKV,
                     responder_state(proc[p].st, proc[p].id, proc[p].peer), mailbox_ttl_secs)
    /\ proc' = [proc EXCEPT ![p].pc = "j_clear"]
    /\ UNCHANGED <<outside, registry, now, listKV, rdvKV, reply, nextId, ops, known, pushed, hub, history>>

\* clear_mailbox_messages(responder)
JoinClear(p) ==
    /\ proc[p].pc = "j_clear"
    /\ listKV' = clear_mailbox_messages(listKV, proc[p].peer)
    /\ proc' = [proc EXCEPT ![p].pc = "j_llen"]
    /\ lastRecv' = MarkRemoved(listKV, listKV')
    /\ UNCHANGED <<outside, registry, now, metaKV, rdvKV, reply, nextId, ops, known, pushed, hub,
                   appended, tokGen, inits, joins, acked>>

\* get_message_count(initiator) and the clock read of the join message.
JoinCount(p) ==
    /\ proc[p].pc = "j_llen"
    /\ proc' = [proc EXCEPT ![p].pc = "j_rpush",
                            ![p].seq = get_message_count(listKV, proc[p].id),
                            ![p].ts = NowMs]
    /\ UNCHANGED <<outside, registry, now, store, reply, nextId, ops, known, pushed, hub, history>>

\* The synthetic "peer joined" entry.
join_msg(p) ==
    [from_mailbox_id |-> proc[p].peer, ciphertext_b64 |-> "",
     sequence |-> proc[p].seq, timestamp_epoch_ms |-> proc[p].ts]

\* push_message' RPUSH onto the initiator's list.
JoinPush(p) ==
    /\ proc[p].pc = "j_rpush"
    /\ listKV' = push_message_rpush(listKV, proc[p].id, join_msg(p))
    /\ proc' = [proc EXCEPT ![p].pc = "j_expire"]
    /\ lastRecv' = [lastRecv EXCEPT ![proc[p].id] = None]
    /\ appended' = appended \cup Extended(listKV, listKV')
    /\ UNCHANGED <<outside, registry, now, metaKV, rdvKV, reply, nextId, ops, known, pushed, hub,
                   tokGen, inits, joins, acked>>

\* push_message' EXPIRE; join_connection returns Ok.
JoinExpire(p) ==
    /\ proc[p].pc = "j_expire"
    /\ listKV' = push_message_expire(listKV, proc[p].id, mailbox_ttl_secs)
    /\ proc' = [proc EXCEPT ![p].pc = "j_notify"]
    /\ UNCHANGED <<outside, registry, now, metaKV, rdvKV, reply, nextId, ops, known, pushed, hub, history>>

\* connection_join: push.notify(initiator, join_json), then the 200 answer.
JoinNotify(p) ==
    /\ proc[p].pc = "j_notify"
    /\ pushed' = Append(pushed, <<proc[p].id, SerializeMessage(join_msg(p))>>)
    /\ subs' = notify(channels, subs, proc[p].id, SerializeMessage(join_msg(p)))
    /\ reply' = Done(proc[p], 200, <<proc[p].peer, proc[p].st.expires_at_epoch_ms>>)
    /\ proc' = [proc EXCEPT ![p] = Idle]
    /\ known' = known \cup {proc[p].peer}
    /\ joins' = joins \cup {[tok |-> proc[p].tok, gen |-> proc[p].gen,
                             initiator |-> proc[p].id, mailbox_id |-> proc[p].peer,
                             expires_at_epoch_ms |-> proc[p].st.expires_at_epoch_ms]}
    /\ UNCHANGED <<outside, registry, now, store, nextId, ops, channels, appended, tokGen, inits, acked, lastRecv>>

\* ------------------------------------------------- send_message, mailbox_send

\* Variant of send_precheck that checks the expiry before the peer.
send_precheck_expiry_first(st, now_ms) ==
    IF ~IsSome(st) THEN "MailboxNotFound"
    ELSE IF now_ms >= Unwrap(st).expires_at_epoch_ms THEN "SessionExpired"
    ELSE IF ~IsSome(Unwrap(st).peer_mailbox_id) THEN "NoPeerConnected"
    ELSE "Ok"

\* Variant of send_precheck that still accepts a send at now = expires_at.
send_precheck_expiry_exclusive(st, now_ms) ==
    IF ~IsSome(st) THEN "MailboxNotFound"
    ELSE IF ~IsSome(Unwrap(st).peer_mailbox_id) THEN "NoPeerConnected"
    ELSE IF now_ms > Unwrap(st).expires_at_epoch_ms THEN "SessionExpired"
    ELSE "Ok"

\* The checks of send_message between get_mailbox_meta and get_message_count.
send_precheck(st, now_ms) ==
    IF ~IsSome(st) THEN "MailboxNotFound"
    ELSE IF ~IsSome(Unwrap(st).peer_mailbox_id) THEN "NoPeerConnected"
    ELSE IF now_ms >= Unwrap(st).expires_at_epoch_ms THEN "SessionExpired"
    ELSE "Ok"

\* Request arrival, get_mailbox_meta(mailbox_id), the peer check, the clock
\* read and the expiry check.
SendGetMeta(p, m, c) ==
    /\ CanStart(p)
    /\ ops' = ops + 1
    /\ LET st  == get_mailbox_meta(metaKV, m)
           res == send_precheck(st, NowMs)
           req == [Idle EXCEPT !.op = "send", !.mbox = m, !.ct = c]
       IN  IF res = "Ok"
           THEN /\ proc' = [proc EXCEPT ![p] =
                      [req EXCEPT !.pc = "s_llen", !.ts = NowMs,
                                  !.peer = Unwrap(Unwrap(st).peer_mailbox_id)]]
                /\ UNCHANGED reply
           ELSE /\ reply' = Failed(req, res)
                /\ proc' = [proc EXCEPT ![p] = Idle]
    /\ UNCHANGED <<outside, registry, now, store, nextId, known, pushed, hub, history>>

\* get_message_count(peer)
SendCount(p) ==
    /\ proc[p].pc = "s_llen"
    /\ proc' = [proc EXCEPT ![p].pc = "s_rpush",
                            ![p].seq = get_message_count(listKV, proc[p].peer)]
    /\ UNCHANGED <<outside, registry, now, store, reply, nextId, ops, known, pushed, hub, history>>

\* The MailboxMessageStored of a send.
send_msg(p) ==
    [from_mailbox_id |-> proc[p].mbox, ciphertext_b64 |-> proc[p].ct,
     sequence |-> proc[p].seq, timestamp_epoch_ms |-> proc[p].ts]

\* push_message' RPUSH onto the peer's list.
SendPush(p) ==
    /\ proc[p].pc = "s_rpush"
    /\ listKV' = push_message_rpush(listKV, proc[p].peer, send_msg(p))
    /\ proc' = [proc EXCEPT ![p].pc = "s_expire"]
    /\ lastRecv' = [lastRecv EXCEPT ![proc[p].peer] = None]
    /\ appended' = appended \cup Extended(listKV, listKV')
    /\ UNCHANGED <<outside, registry, now, metaKV, rdvKV, reply, nextId, ops, known, pushed, hub,
                   tokGen, inits, joins, acked>>

\* push_message' EXPIRE; send_message returns Ok.
SendExpire(p) ==
    /\ proc[p].pc = "s_expire"
    /\ listKV' = push_message_expire(listKV, proc[p].peer, mailbox_ttl_secs)
    /\ proc' = [proc EXCEPT ![p].pc = "s_notify"]
    /\ UNCHANGED <<outside, registry, now, metaKV, rdvKV, reply, nextId, ops, known, pushed, hub, history>>

\* mailbox_send: push.notify(peer, msg_json), then the 202 answer.
SendNotify(p) ==
    /\ proc[p].pc = "s_notify"
    /\ pushed' = Append(pushed, <<proc[p].peer, SerializeMessage(send_msg(p))>>)
    /\ subs' = notify(channels, subs, proc[p].peer, SerializeMessage(send_msg(p)))
    /\ reply' = Done(proc[p], 202, <<>>)
    /\ proc' = [proc EXCEPT ![p] = Idle]
    /\ acked' = acked \cup {<<proc[p].peer, SerializeMessage(send_msg(p))>>}
    /\ UNCHANGED <<outside, registry, now, store, nextId, ops, known, channels, appended, tokGen, inits, joins,
                   lastRecv>>

\* ------------------------------------------------- recv_messages, mailbox_recv

\* messages.last().map(|m| m.sequence).unwrap_or(0)
last_sequence(msgs) ==
    IF msgs = <<>> THEN 0 ELSE msgs[Len(msgs)].sequence

\* Request arrival and get_mailbox_meta(mailbox_id).
RecvGetMeta(p, m) ==
    /\ CanStart(p)
    /\ ops' = ops + 1
    /\ LET req == [Idle EXCEPT !.op = "recv", !.mbox = m]
       IN  IF IsSome(get_mailbox_meta(metaKV, m))
           THEN /\ proc' = [proc EXCEPT ![p] = [req EXCEPT !.pc = "r_lrange"]]
                /\ UNCHANGED reply
           ELSE /\ reply' = Failed(req, "MailboxNotFound")
                /\ proc' = [proc EXCEPT ![p] = Idle]
    /\ UNCHANGED <<outside, registry, now, store, nextId, known, pushed, hub, history>>

\* get_messages(mailbox_id), the MailboxRecvResponse and the 200 answer.
RecvMessages(p) ==
    /\ proc[p].pc = "r_lrange"
    /\ LET got  == get_messages(listKV, proc[p].mbox)
           body == <<got.out, last_sequence(got.out)>>
       IN  /\ listKV' = got.kv
           /\ reply' = Done(proc[p], 200, body)
           /\ lastRecv' = [lastRecv EXCEPT ![proc[p].mbox] =
                 Some([body |-> body, removed |-> FALSE,
                       times |-> IF IsSome(@) THEN Unwrap(@).times + 1 ELSE 1])]
    /\ proc' = [proc EXCEPT ![p] = Idle]
    /\ UNCHANGED <<outside, registry, now, metaKV, rdvKV, nextId, ops, known, pushed, hub,
                   appended, tokGen, inits, joins, acked>>

\* ------------------------------------------------------------------ time

\* ------------------------------------------------------ ws_upgrade, handle_ws

\* Variant of verify_mailbox that accepts every mailbox id.
verify_mailbox_any(kv, id) == "Ok"

\* verify_mailbox(mailbox_id)
verify_mailbox(kv, id) ==
    IF IsSome(get_mailbox_meta(kv, id)) THEN "Ok" ELSE "MailboxNotFound"

\* ws_upgrade: verify_mailbox, then either StatusCode::NOT_FOUND or
\* ws.on_upgrade(handle_ws): the 101 answer goes out and handle_ws is spawned.
WsUpgrade(s, m) ==
    /\ subs[s].pc = "none"
    /\ \A q \in Subs : q < s => subs[q].pc # "none"
    /\ ops < MaxOps
    /\ ops' = ops + 1
    /\ LET req == [Idle EXCEPT !.op = "ws", !.mbox = m]
       IN  IF verify_mailbox(metaKV, m) = "Ok"
           THEN /\ subs' = [subs EXCEPT ![s] =
                      [NoSub EXCEPT !.pc = "upgraded", !.mbox = m,
                                    !.upgradedAt = Len(pushed)]]
                /\ reply' = Done(req, 101, <<>>)
           ELSE /\ reply' = [Failed(req, "MailboxNotFound") EXCEPT !.status = 404]
                /\ UNCHANGED subs
    /\ UNCHANGED <<outside, registry, now, store, proc, nextId, known, pushed, channels, history>>

\* ws_upgrade while the store cannot be reached: get_mailbox_meta fails,
\* verify_mailbox returns Err(RendezvousError::Redis), and ws_upgrade answers
\* every Err of verify_mailbox with StatusCode::NOT_FOUND.
WsUpgradeStoreError(s, m) ==
    /\ subs[s].pc = "none"
    /\ \A q \in Subs : q < s => subs[q].pc # "none"
    /\ ops < MaxOps
    /\ ops' = ops + 1
    /\ reply' = [Failed([Idle EXCEPT !.op = "ws", !.mbox = m], "Redis")
                    EXCEPT !.status = 404]
    /\ UNCHANGED <<outside, registry, now, store, proc, nextId, known, pushed, hub, history>>

\* handle_ws: state.push.subscribe(&mailbox_id); the forwarding loop follows.
WsSubscribe(s) ==
    /\ subs[s].pc = "upgraded"
    /\ channels' = subscribe(channels, subs[s].mbox)
    /\ subs' = [subs EXCEPT ![s].pc = "subscribed", ![s].subscribedAt = Len(pushed)]
    /\ UNCHANGED <<outside, registry, now, store, proc, reply, nextId, ops, known, pushed, history>>

\* handle_ws, one turn of `while let Ok(msg) = rx.recv().await`: the message is
\* sent as a text frame; on Err the loop ends and the receiver is dropped.
WsForward(s) ==
    /\ subs[s].pc = "subscribed"
    /\ subs[s].lagged \/ subs[s].queue # <<>>
    /\ LET got == recv(subs[s])
       IN  IF IsSome(got.res)
           THEN subs' = [subs EXCEPT ![s] =
                    [got.sub EXCEPT !.frames = Append(@, Unwrap(got.res))]]
           ELSE subs' = [subs EXCEPT ![s] =
                    [got.sub EXCEPT !.pc = "closed", !.queue = <<>>]]
    /\ UNCHANGED <<outside, registry, now, store, proc, reply, nextId, ops, known, pushed,
                   channels, history>>

\* ------------------------------------------------------------------ faults

\* The store command task p is waiting for fails: `.map_err(RendezvousError::Redis)?`
\* returns from the service, the handler answers 500 and skips push.notify.
StoreError(p) ==
    /\ proc[p].pc \notin {"idle", "j_notify", "s_notify"}
    /\ reply' = Failed(proc[p], "Redis")
    /\ proc' = [proc EXCEPT ![p] = Idle]
    /\ UNCHANGED <<outside, registry, now, store, nextId, ops, known, pushed, hub, history>>

\* The server process dies: every task and the PushHub are lost, the store stays.
Crash ==
    /\ \E p \in Procs : proc[p].pc # "idle"
    /\ proc' = [p \in Procs |-> Idle]
    /\ channels' = {}
    /\ subs' = [s \in Subs |-> NoSub]
    /\ clients' = <<>>
    /\ messages' = <<>>
    /\ rtask' = [p \in Procs |-> RIdle]
    /\ UNCHANGED <<elsewhere, pruned, nextClient, now, store, reply, nextId, ops, known, pushed, history>>

\* ------------------------------------- src/rust/src/signaling/server.rs

\* One server as a request leaves it: its three keyspaces, the notifications
\* it has issued, and its last response.
NewServer == [meta |-> <<>>, list |-> <<>>, rdv |-> <<>>, pushed |-> <<>>,
              status |-> 0, body |-> <<>>]

\* Both servers before the first request; drawn counts the mailbox ids handed
\* to the requests, n the requests.
TwinStart == [crate |-> NewServer, legacy |-> NewServer, drawn |-> 0, n |-> 0]

\* RendezvousError's Display text (#[error("..")]), the ErrorResponse message.
error_message(err) ==
    CASE err = "MailboxNotFound"      -> "Mailbox not found"
      [] err = "SessionExpired"       -> "Session expired"
      [] err = "InvalidToken"         -> "Invalid or expired token"
      [] err = "SessionAlreadyPaired" -> "Session already has a peer"
      [] err = "NoPeerConnected"      -> "No peer connected"
      [] OTHER                        -> "Redis error"

\* .map_err(rendezvous_err)? of the crate's handlers
Refused(S, err) == [S EXCEPT !.status = rendezvous_err(err), !.body = <<error_message(err)>>]

\* return Err((status, Json(ErrorResponse { message }))) of the inline handlers
Answered(S, status, message) == [S EXCEPT !.status = status, !.body = <<message>>]

\* crates/signaling: connection_init after the session check, with
\* RendezvousService::init_connection
service_init(S, tok, id) ==
    LET st == [mailbox_id |-> id, peer_mailbox_id |-> None,
               created_at_epoch_ms |-> NowMs,
               expires_at_epoch_ms |-> NowMs + mailbox_ttl_secs * MsPerSec]
    IN  [S EXCEPT !.meta = save_mailbox_meta(@, st, mailbox_ttl_secs),
                  !.list = clear_mailbox_messages(@, id),
                  !.rdv = save_rendezvous(@, tok, id, RendezvousTtlSecs),
                  !.status = 200,
                  !.body = <<id, st.expires_at_epoch_ms>>]

\* src/signaling/server.rs: connection_init after the session check
inline_init(S, tok, id, room_ttl) ==
    LET mailbox_state == [mailbox_id |-> id, peer_mailbox_id |-> None,
                          created_at_epoch_ms |-> NowMs,
                          expires_at_epoch_ms |-> NowMs + room_ttl * MsPerSec]
    IN  [S EXCEPT !.meta = SetEx(@, id, SerializeState(mailbox_state), room_ttl),
                  !.list = Del(@, id),
                  !.rdv = SetEx(@, tok, id, RendezvousTtlSecs),
                  !.status = 200,
                  !.body = <<id, mailbox_state.expires_at_epoch_ms>>]

\* crates/signaling: connection_join with RendezvousService::join_connection
service_join(S, tok, id) ==
    LET taken == rendezvous_get(S.rdv, tok)
        S1    == [S EXCEPT !.rdv = rendezvous_del(@, tok)]
        found == get_mailbox_meta(S.meta, Unwrap(taken))
        ini   == [Unwrap(found) EXCEPT !.peer_mailbox_id = Some(id)]
        meta2 == save_mailbox_meta(save_mailbox_meta(S.meta, ini, mailbox_ttl_secs),
                                   responder_state(ini, ini.mailbox_id, id),
                                   mailbox_ttl_secs)
        list1 == clear_mailbox_messages(S.list, id)
        msg   == [from_mailbox_id |-> id, ciphertext_b64 |-> "",
                  sequence |-> get_message_count(list1, ini.mailbox_id),
                  timestamp_epoch_ms |-> NowMs]
    IN  IF ~IsSome(taken) THEN Refused(S, "InvalidToken")
        ELSE IF join_precheck(found) # "Ok" THEN Refused(S1, join_precheck(found))
        ELSE [S1 EXCEPT
                 !.meta = meta2,
                 !.list = push_message_expire(push_message_rpush(list1, ini.mailbox_id, msg),
                                              ini.mailbox_id, mailbox_ttl_secs),
                 !.pushed = Append(@, <<ini.mailbox_id, SerializeMessage(msg)>>),
                 !.status = 200,
                 !.body = <<id, ini.expires_at_epoch_ms>>]

\* src/signaling/server.rs: connection_join
inline_join(S, tok, id, room_ttl) ==
    LET initiator_mailbox_id == Get(S.rdv, tok)
        S1        == [S EXCEPT !.rdv = Del(@, tok)]
        meta_json == Get(S.meta, Unwrap(initiator_mailbox_id))
        parsed    == DeserializeState(Unwrap(meta_json))
        initiator_state == [Unwrap(parsed) EXCEPT !.peer_mailbox_id = Some(id)]
        responder == [mailbox_id |-> id,
                      peer_mailbox_id |-> Some(Unwrap(initiator_mailbox_id)),
                      created_at_epoch_ms |-> initiator_state.created_at_epoch_ms,
                      expires_at_epoch_ms |-> initiator_state.expires_at_epoch_ms]
        meta2 == SetEx(SetEx(S.meta, Unwrap(initiator_mailbox_id),
                             SerializeState(initiator_state), room_ttl),
                       id, SerializeState(responder), room_ttl)
        list1 == Del(S.list, id)
        join_entry == [from_mailbox_id |-> id, ciphertext_b64 |-> "",
                     sequence |-> LLen(list1, initiator_state.mailbox_id),
                     timestamp_epoch_ms |-> NowMs]
    IN  IF ~IsSome(initiator_mailbox_id)
        THEN Answered(S, 404, "Invalid or expired token")
        ELSE IF ~IsSome(meta_json)
        THEN Answered(S1, 404, "Initiator session not found or expired")
        ELSE IF ~IsSome(parsed)
        THEN Answered(S1, 500, "serde_json error")
        ELSE IF IsSome(Unwrap(parsed).peer_mailbox_id)
        THEN Answered(S1, 409, "Session already has a peer")
        ELSE [S1 EXCEPT
                 !.meta = meta2,
                 !.list = Expire(RPush(list1, initiator_state.mailbox_id,
                                       SerializeMessage(join_entry)),
                                 initiator_state.mailbox_id, room_ttl),
                 !.pushed = Append(@, <<initiator_state.mailbox_id,
                                        SerializeMessage(join_entry)>>),
                 !.status = 200,
                 !.body = <<id, responder.expires_at_epoch_ms>>]

\* crates/signaling: mailbox_send with RendezvousService::send_message
service_send(S, m, c) ==
    LET found == get_mailbox_meta(S.meta, m)
        peer  == Unwrap(Unwrap(found).peer_mailbox_id)
        msg   == [from_mailbox_id |-> m, ciphertext_b64 |-> c,
                  sequence |-> get_message_count(S.list, peer),
                  timestamp_epoch_ms |-> NowMs]
    IN  IF send_precheck(found, NowMs) # "Ok" THEN Refused(S, send_precheck(found, NowMs))
        ELSE [S EXCEPT
                 !.list = push_message_expire(push_message_rpush(@, peer, msg),
                                              peer, mailbox_ttl_secs),
                 !.pushed = Append(@, <<peer, SerializeMessage(msg)>>),
                 !.status = 202,
                 !.body = <<>>]

\* src/signaling/server.rs: mailbox_send (RPUSH, push.notify, then EXPIRE)
inline_send(S, m, c, room_ttl) ==
    LET meta_json == Get(S.meta, m)
        parsed    == DeserializeState(Unwrap(meta_json))
        peer_mailbox_id == Unwrap(Unwrap(parsed).peer_mailbox_id)
        msg == [from_mailbox_id |-> m, ciphertext_b64 |-> c,
                sequence |-> LLen(S.list, peer_mailbox_id),
                timestamp_epoch_ms |-> NowMs]
    IN  IF ~IsSome(meta_json) THEN Answered(S, 404, "Mailbox not found")
        ELSE IF ~IsSome(parsed) THEN Answered(S, 500, "serde_json error")
        ELSE IF ~IsSome(Unwrap(parsed).peer_mailbox_id)
        THEN Answered(S, 409, "No peer connected")
        ELSE IF NowMs >= Unwrap(parsed).expires_at_epoch_ms
        THEN Answered(S, 410, "Session expired")
        ELSE [S EXCEPT
                 !.list = Expire(RPush(@, peer_mailbox_id, SerializeMessage(msg)),
                                 peer_mailbox_id, room_ttl),
                 !.pushed = Append(@, <<peer_mailbox_id, SerializeMessage(msg)>>),
                 !.status = 202,
                 !.body = <<>>]

\* crates/signaling: mailbox_recv with RendezvousService::recv_messages
service_recv(S, m) ==
    IF ~IsSome(get_mailbox_meta(S.meta, m))
    THEN Refused(S, "MailboxNotFound")
    ELSE [S EXCEPT !.list = get_messages(@, m).kv,
                   !.status = 200,
                   !.body = <<get_messages(S.list, m).out,
                              last_sequence(get_messages(S.list, m).out)>>]

\* src/signaling/server.rs: mailbox_recv
inline_recv(S, m) ==
    LET meta_json == Get(S.meta, m)
        messages_read == ParseAll(LRange(S.list, m))
    IN  IF ~IsSome(meta_json) THEN Answered(S, 404, "Mailbox not found")
        ELSE IF ~IsSome(DeserializeState(Unwrap(meta_json)))
        THEN Answered(S, 500, "serde_json error")
        ELSE [S EXCEPT !.status = 200,
                       !.body = <<messages_read, last_sequence(messages_read)>>]

\* The next request reaches both servers.
TwinCanStart == twin.n < MaxOps

\* An init request with the same rendezvous id, answered by both servers;
\* gen_mailbox_id draws the same id in both.
TwinInit(tok) ==
    /\ TwinCanStart
    /\ twin' = [crate  |-> service_init(twin.crate, tok, twin.drawn + 1),
                legacy |-> inline_init(twin.legacy, tok, twin.drawn + 1, mailbox_ttl_secs),
                drawn  |-> twin.drawn + 1,
                n      |-> twin.n + 1]
    /\ UNCHANGED <<mailbox_ttl_secs, xfer, signals, registry, now, store, proc, reply, nextId, ops,
                   known, pushed, hub, history>>

\* A join request with the same token, answered by both servers.
TwinJoin(tok) ==
    /\ TwinCanStart
    /\ twin' = [crate  |-> service_join(twin.crate, tok, twin.drawn + 1),
                legacy |-> inline_join(twin.legacy, tok, twin.drawn + 1, mailbox_ttl_secs),
                drawn  |-> twin.drawn + 1,
                n      |-> twin.n + 1]
    /\ UNCHANGED <<mailbox_ttl_secs, xfer, signals, registry, now, store, proc, reply, nextId, ops,
                   known, pushed, hub, history>>

\* A send request answered by both servers.
TwinSend(m, c) ==
    /\ TwinCanStart
    /\ twin' = [twin EXCEPT !.crate  = service_send(@, m, c),
                            !.legacy = inline_send(@, m, c, mailbox_ttl_secs),
                            !.n      = @ + 1]
    /\ UNCHANGED <<mailbox_ttl_secs, xfer, signals, registry, now, store, proc, reply, nextId, ops,
                   known, pushed, hub, history>>

\* A recv request answered by both servers.
TwinRecv(m) ==
    /\ TwinCanStart
    /\ twin' = [twin EXCEPT !.crate  = service_recv(@, m),
                            !.legacy = inline_recv(@, m),
                            !.n      = @ + 1]
    /\ UNCHANGED <<mailbox_ttl_secs, xfer, signals, registry, now, store, proc, reply, nextId, ops,
                   known, pushed, hub, history>>

\* --------------------------------------- client-core/src/file_transfer.rs

\* The bytes a chunk can carry, and the chunks the peer can send.
Bytes == {"a", "b"}
Chunks == {<<b>> : b \in Bytes} \cup {<<"a", "b">>}

\* Sha256 over a byte string: equal digests only for equal input.
Sha256(data) == [sha256 |-> data]

\* hex::encode: lowercase hexadecimal text of the digest.
hex_encode(digest) == [hex |-> digest, upper |-> FALSE]

\* What a Metadata message can declare: transfer id, size (one above the
\* limit included) and the sha256 text, lowercase or uppercase.
TransferIds == {"t1", "t2"}
DeclaredSizes == 0..(MaxFileSize + 1)
DeclaredHashes ==
    {hex_encode(Sha256(d)) : d \in {<<"a">>, <<"a", "b">>}}
        \cup {[hex |-> Sha256(<<"a">>), upper |-> TRUE]}

\* receive_file as it enters its loop: nothing open, nothing on disk.
Receiving ==
    [pc |-> "loop", file |-> None, metadata |-> None, temp_path |-> None,
     current_id |-> None, hasher |-> <<>>, received_size |-> 0,
     temp |-> <<>>, final |-> {}, sent |-> <<>>, err |-> "", msgs |-> 0]

\* anyhow::bail!(..)
Bail(x, err) == [x EXCEPT !.pc = "failed", !.err = err]

\* The block after the loop: the size check, the hash check, and either the
\* rename of the temporary file to the final path or its removal.
Finish(x) ==
    IF ~(IsSome(x.metadata) /\ IsSome(x.file)) THEN [x EXCEPT !.pc = "ok"]
    ELSE IF x.received_size # Unwrap(x.metadata).size THEN Bail(x, "Size mismatch")
    ELSE IF hex_encode(Sha256(x.hasher)) = Unwrap(x.metadata).sha256
    THEN [x EXCEPT !.pc = "ok",
                   !.final = @ \cup {[name |-> Unwrap(x.metadata).name,
                                      content |-> x.temp[Unwrap(x.temp_path)]]},
                   !.temp = [q \in DOMAIN x.temp \ {Unwrap(x.temp_path)} |-> x.temp[q]]]
    ELSE [Bail(x, "Integrity check failed") EXCEPT
             !.temp = [q \in DOMAIN x.temp \ {Unwrap(x.temp_path)} |-> x.temp[q]]]

\* The test at the end of each turn of the loop: enough bytes, so break.
EndOfTurn(x) ==
    IF x.pc = "loop" /\ IsSome(x.metadata) /\ x.received_size >= Unwrap(x.metadata).size
    THEN Finish(x)
    ELSE x

\* One message arrives within the inactivity timeout.
Arrives == xfer.pc = "loop" /\ xfer.msgs < MaxMsgs

ReceiveUnchanged ==
    UNCHANGED <<mailbox_ttl_secs, twin, signals, registry, now, store, proc, reply, nextId,
                ops, known, pushed, hub, history>>

\* TransferMessage::Metadata { id, name, size, sha256 }
OnMetadata(id, size, sha256) ==
    /\ Arrives
    /\ LET x    == [xfer EXCEPT !.msgs = @ + 1]
           path == <<id, "name">>
       IN  xfer' =
             IF size > MaxFileSize
             THEN [Bail(x, "File exceeds max size") EXCEPT
                      !.sent = Append(@, <<"reject", id>>)]
             ELSE EndOfTurn(
                    [x EXCEPT
                       !.temp = [q \in DOMAIN x.temp \cup {path} |->
                                    IF q = path THEN <<>> ELSE x.temp[q]],
                       !.file = Some(path),
                       !.temp_path = Some(path),
                       !.current_id = Some(id),
                       !.metadata = Some([name |-> "name", size |-> size,
                                          sha256 |-> sha256]),
                       !.sent = Append(@, <<"accept", id>>)])
    /\ ReceiveUnchanged

\* TransferMessage::Chunk { data }: written, hashed and counted when a file
\* is open, dropped otherwise.
OnChunk(data) ==
    /\ Arrives
    /\ LET x == [xfer EXCEPT !.msgs = @ + 1]
       IN  xfer' =
             IF IsSome(x.file)
             THEN EndOfTurn(
                    [x EXCEPT !.temp[Unwrap(x.file)] = @ \o data,
                              !.hasher = @ \o data,
                              !.received_size = @ + Len(data)])
             ELSE EndOfTurn(x)
    /\ ReceiveUnchanged

\* TransferMessage::Eof { id }
OnEof(id) ==
    /\ Arrives
    /\ LET x == [xfer EXCEPT !.msgs = @ + 1]
       IN  xfer' = IF x.current_id = Some(id) THEN Finish(x) ELSE EndOfTurn(x)
    /\ ReceiveUnchanged

\* TransferMessage::Reject { id } | TransferMessage::Cancel { id }
OnCancel(id) ==
    /\ Arrives
    /\ LET x == [xfer EXCEPT !.msgs = @ + 1]
       IN  xfer' = IF x.current_id = Some(id)
                   THEN Bail(x, "Transfer cancelled by peer")
                   ELSE EndOfTurn(x)
    /\ ReceiveUnchanged

\* TransferMessage::Accept { .. }
OnAccept ==
    /\ Arrives
    /\ xfer' = EndOfTurn([xfer EXCEPT !.msgs = @ + 1])
    /\ ReceiveUnchanged

\* timeout(INACTIVITY_TIMEOUT, rx.recv()) elapses.
OnTimeout ==
    /\ xfer.pc = "loop"
    /\ xfer' = Bail(xfer, "Transfer inactivity timeout")
    /\ ReceiveUnchanged

\* rx.recv() returns None: the channel's sender is gone.
OnClosed ==
    /\ xfer.pc = "loop"
    /\ xfer' = Finish(xfer)
    /\ ReceiveUnchanged

\* ------------------------------------------------------------------- clock

\* The keys whose TTL has not run out at time t.
Unexpired(kv, t) == [k \in {x \in DOMAIN kv : kv[x].exp > t} |-> kv[k]]

\* The same for list keys, which carry a TTL only after an EXPIRE.
UnexpiredLists(kv, t) ==
    [k \in {x \in DOMAIN kv : IsSome(kv[x].exp) => Unwrap(kv[x].exp) > t} |-> kv[k]]

\* One second passes; the store evicts every key whose TTL ran out.
Tick ==
    /\ now < MaxTime
    /\ now' = now + 1
    /\ metaKV' = Unexpired(metaKV, now + 1)
    /\ listKV' = UnexpiredLists(listKV, now + 1)
    /\ rdvKV' = Unexpired(rdvKV, now + 1)
    /\ lastRecv' = MarkRemoved(listKV, listKV')
    /\ UNCHANGED <<outside, registry, proc, reply, nextId, ops, known, pushed, hub, appended, tokGen, inits, joins, acked>>

\* One second passes for both servers; each store evicts its expired keys.
Evicted(S, t) ==
    [S EXCEPT !.meta = Unexpired(@, t), !.list = UnexpiredLists(@, t),
              !.rdv = Unexpired(@, t)]

TwinTick ==
    /\ now < MaxTime
    /\ now' = now + 1
    /\ twin' = [twin EXCEPT !.crate = Evicted(@, now + 1), !.legacy = Evicted(@, now + 1)]
    /\ UNCHANGED <<mailbox_ttl_secs, xfer, signals, registry, store, proc, reply, nextId, ops,
                   known, pushed, hub, history>>

\* ------------------------------------------------------- specifications

\* The state after start-up with the configured mailbox TTL (Config.mailbox_ttl).
Started(ttl) ==
    /\ now = 0
    /\ metaKV = <<>>
    /\ listKV = <<>>
    /\ rdvKV = <<>>
    /\ proc = [p \in Procs |-> Idle]
    /\ reply = NoReply
    /\ nextId = 1
    /\ ops = 0
    /\ known = {}
    /\ pushed = <<>>
    /\ channels = {}
    /\ subs = [s \in Subs |-> NoSub]
    /\ appended = {}
    /\ tokGen = [t \in Tokens |-> 0]
    /\ inits = {}
    /\ joins = {}
    /\ acked = {}
    /\ lastRecv = [m \in MailboxIds |-> None]
    /\ clients = <<>>
    /\ nextClient = 1
    /\ mailbox_ttl_secs = ttl
    /\ messages = <<>>
    /\ rtask = [p \in Procs |-> RIdle]
    /\ pruned = {}
    /\ twin = TwinStart
    /\ xfer = Receiving

Init == Started(MailboxTtlSecs)

\* The mailbox ids a client can name: the ones it was given, or a guess.
Nameable == known \cup {UnknownId}

Next ==
    \/ Tick
    \/ \E p \in Procs, tok \in Tokens : InitStart(p, tok)
    \/ \E p \in Procs : InitSaveMeta(p)
    \/ \E p \in Procs : InitClear(p)
    \/ \E p \in Procs : InitSaveRendezvous(p)
    \/ \E p \in Procs, tok \in Tokens : JoinGet(p, tok)
    \/ \E p \in Procs : JoinDel(p)
    \/ \E p \in Procs : JoinGetMeta(p)
    \/ \E p \in Procs : JoinSaveInitiator(p)
    \/ \E p \in Procs : JoinSaveResponder(p)
    \/ \E p \in Procs : JoinClear(p)
    \/ \E p \in Procs : JoinCount(p)
    \/ \E p \in Procs : JoinPush(p)
    \/ \E p \in Procs : JoinExpire(p)
    \/ \E p \in Procs : JoinNotify(p)
    \/ \E p \in Procs, m \in Nameable, c \in Ciphertexts : SendGetMeta(p, m, c)
    \/ \E p \in Procs : SendCount(p)
    \/ \E p \in Procs : SendPush(p)
    \/ \E p \in Procs : SendExpire(p)
    \/ \E p \in Procs : SendNotify(p)
    \/ \E p \in Procs, m \in Nameable : RecvGetMeta(p, m)
    \/ \E p \in Procs : RecvMessages(p)

Spec == Init /\ [][Next]_vars

\* Requests served one at a time: a request starts only when no other is in
\* progress, so the lowest task serves them all.
SeqProcs == {1}

SeqNext ==
    \/ Tick
    \/ \E p \in SeqProcs, tok \in Tokens : InitStart(p, tok)
    \/ \E p \in SeqProcs : InitSaveMeta(p)
    \/ \E p \in SeqProcs : InitClear(p)
    \/ \E p \in SeqProcs : InitSaveRendezvous(p)
    \/ \E p \in SeqProcs, tok \in Tokens : JoinGet(p, tok)
    \/ \E p \in SeqProcs : JoinDel(p)
    \/ \E p \in SeqProcs : JoinGetMeta(p)
    \/ \E p \in SeqProcs : JoinSaveInitiator(p)
    \/ \E p \in SeqProcs : JoinSaveResponder(p)
    \/ \E p \in SeqProcs : JoinClear(p)
    \/ \E p \in SeqProcs : JoinCount(p)
    \/ \E p \in SeqProcs : JoinPush(p)
    \/ \E p \in SeqProcs : JoinExpire(p)
    \/ \E p \in SeqProcs : JoinNotify(p)
    \/ \E p \in SeqProcs, m \in Nameable, c \in Ciphertexts : SendGetMeta(p, m, c)
    \/ \E p \in SeqProcs : SendCount(p)
    \/ \E p \in SeqProcs : SendPush(p)
    \/ \E p \in SeqProcs : SendExpire(p)
    \/ \E p \in SeqProcs : SendNotify(p)
    \/ \E p \in SeqProcs, m \in Nameable : RecvGetMeta(p, m)
    \/ \E p \in SeqProcs : RecvMessages(p)

SeqSpec == Init /\ [][SeqNext]_vars

\* The service with its websocket endpoint.
WsNext ==
    \/ Next
    \/ \E s \in Subs, m \in Nameable : WsUpgrade(s, m)
    \/ \E s \in Subs : WsSubscribe(s)
    \/ \E s \in Subs : WsForward(s)

WsSpec == Init /\ [][WsNext]_vars

\* The service with store errors and crashes of the server process.
FaultNext ==
    \/ Next
    \/ \E p \in Procs : StoreError(p)
    \/ Crash

FaultSpec == Init /\ [][FaultNext]_vars

\* The service behind its session check: clients register, and every init
\* request carries a client id and a session token.
AuthNext ==
    \/ Tick
    \/ Register
    \/ \E p \in Procs, c \in ClientIds, st \in SessionTokens, tok \in Tokens :
          InitRejected(p, c, st, tok)
    \/ \E p \in Procs, c \in ClientIds, st \in SessionTokens, tok \in Tokens :
          InitAccepted(p, c, st, tok)
    \/ \E p \in Procs : InitSaveMeta(p)
    \/ \E p \in Procs : InitClear(p)
    \/ \E p \in Procs : InitSaveRendezvous(p)

AuthSpec == Init /\ [][AuthNext]_vars

\* The same requests, one after the other, sent to the crate's server and to
\* the server of src/rust/src/signaling, both with the same TTL configured.
TwinNext ==
    \/ TwinTick
    \/ \E tok \in Tokens : TwinInit(tok)
    \/ \E tok \in Tokens : TwinJoin(tok)
    \/ \E m \in 1..twin.drawn \cup {UnknownId}, c \in Ciphertexts : TwinSend(m, c)
    \/ \E m \in 1..twin.drawn \cup {UnknownId} : TwinRecv(m)

TwinSpec == Init /\ [][TwinNext]_vars

\* One call of receive_file and the messages its peer sends.
ReceiveNext ==
    \/ OnAccept
    \/ \E id \in TransferIds, size \in DeclaredSizes, sha256 \in DeclaredHashes :
          OnMetadata(id, size, sha256)
    \/ \E data \in Chunks : OnChunk(data)
    \/ \E id \in TransferIds : OnEof(id)
    \/ \E id \in TransferIds : OnCancel(id)
    \/ OnTimeout
    \/ OnClosed

ReceiveSpec == Init /\ [][ReceiveNext]_vars

\* The session registry alone: register, heartbeat, signal and fetch requests
\* running concurrently while time passes.
RegistryNext ==
    \/ Tick
    \/ \E p \in Procs : RegisterArrive(p)
    \/ \E p \in Procs, op \in {"heartbeat", "fetch"}, c \in ClientIds, st \in SessionTokens :
          ClientArrive(p, op, c, st)
    \/ \E p \in Procs, c \in ClientIds, st \in SessionTokens, to \in ClientIds :
          SignalArrive(p, c, st, to)
    \/ \E p \in Procs : RegPruneMessages(p)
    \/ \E p \in Procs : RegVerify(p)
    \/ \E p \in Procs : RegisterInsert(p)
    \/ \E p \in Procs : HeartbeatUpdate(p)
    \/ \E p \in Procs : SignalAdd(p)
    \/ \E p \in Procs : FetchCollect(p)

RegistrySpec == Init /\ [][RegistryNext]_vars

\* The server configured with a mailbox TTL one second longer, running init,
\* join and send while time passes.
LongTtlSecs == MailboxTtlSecs + 1

LongTtlInit == Started(LongTtlSecs)

LongTtlNext ==
    \/ Tick
    \/ \E p \in Procs, tok \in Tokens : InitStart(p, tok)
    \/ \E p \in Procs : InitSaveMeta(p) \/ InitClear(p) \/ InitSaveRendezvous(p)
    \/ \E p \in Procs, tok \in Tokens : JoinGet(p, tok)
    \/ \E p \in Procs : JoinDel(p) \/ JoinGetMeta(p) \/ JoinSaveInitiator(p)
    \/ \E p \in Procs : JoinSaveResponder(p) \/ JoinClear(p) \/ JoinCount(p)
    \/ \E p \in Procs : JoinPush(p) \/ JoinExpire(p) \/ JoinNotify(p)
    \/ \E p \in Procs, m \in Nameable, c \in Ciphertexts : SendGetMeta(p, m, c)
    \/ \E p \in Procs : SendCount(p) \/ SendPush(p) \/ SendExpire(p) \/ SendNotify(p)

LongTtlSpec == LongTtlInit /\ [][LongTtlNext]_vars

\* A linked pair: the state after init("T") and join("T") were served at time
\* 0, with mailbox 1 the initiator and mailbox 2 the responder; ops counts the
\* requests started from here on.
PairedInit ==
    /\ now = 0
    /\ metaKV = save_mailbox_meta(
                   save_mailbox_meta(<<>>,
                       [mailbox_id |-> 1, peer_mailbox_id |-> Some(2),
                        created_at_epoch_ms |-> 0,
                        expires_at_epoch_ms |-> MailboxTtlSecs * MsPerSec],
                       MailboxTtlSecs),
                   [mailbox_id |-> 2, peer_mailbox_id |-> Some(1),
                    created_at_epoch_ms |-> 0,
                    expires_at_epoch_ms |-> MailboxTtlSecs * MsPerSec],
                   MailboxTtlSecs)
    /\ listKV = push_message_expire(
                   push_message_rpush(<<>>, 1,
                       [from_mailbox_id |-> 2, ciphertext_b64 |-> "",
                        sequence |-> 0, timestamp_epoch_ms |-> 0]),
                   1, MailboxTtlSecs)
    /\ rdvKV = <<>>
    /\ proc = [p \in Procs |-> Idle]
    /\ reply = [NoReply EXCEPT !.n = 2, !.op = "join", !.tok = "T", !.status = 200,
                                !.err = "Ok",
                                !.body = <<2, MailboxTtlSecs * MsPerSec>>]
    /\ nextId = 3
    /\ ops = 0
    /\ known = {1, 2}
    /\ pushed = << <<1, <<2, "", 0, 0>>>> >>
    /\ channels = {}
    /\ subs = [s \in Subs |-> NoSub]
    /\ appended = {<<1, <<2, "", 0, 0>>>>}
    /\ tokGen = [t \in Tokens |-> 1]
    /\ inits = {[tok |-> "T", gen |-> 1, mailbox_id |-> 1, replaced |-> None,
                 expires_at_epoch_ms |-> MailboxTtlSecs * MsPerSec]}
    /\ joins = {[tok |-> "T", gen |-> 1, mailbox_id |-> 2, initiator |-> 1,
                 expires_at_epoch_ms |-> MailboxTtlSecs * MsPerSec]}
    /\ acked = {}
    /\ lastRecv = [m \in MailboxIds |-> None]
    /\ clients = <<>>
    /\ nextClient = 1
    /\ mailbox_ttl_secs = MailboxTtlSecs
    /\ messages = <<>>
    /\ rtask = [p \in Procs |-> RIdle]
    /\ pruned = {}
    /\ twin = TwinStart
    /\ xfer = Receiving

\* The two ends of a linked pair sending and receiving.
PairedNext ==
    \/ Tick
    \/ \E p \in Procs, m \in Nameable, c \in Ciphertexts : SendGetMeta(p, m, c)
    \/ \E p \in Procs : SendCount(p)
    \/ \E p \in Procs : SendPush(p)
    \/ \E p \in Procs : SendExpire(p)
    \/ \E p \in Procs : SendNotify(p)
    \/ \E p \in Procs, m \in Nameable : RecvGetMeta(p, m)
    \/ \E p \in Procs : RecvMessages(p)

PairedSpec == PairedInit /\ [][PairedNext]_vars

\* The PushHub of a linked pair: sends that notify, websocket upgrades and the
\* forwarding loops, all within the second in which the pair was linked.
PushNext ==
    \/ \E p \in Procs, m \in Nameable, c \in Ciphertexts : SendGetMeta(p, m, c)
    \/ \E p \in Procs : SendCount(p)
    \/ \E p \in Procs : SendPush(p)
    \/ \E p \in Procs : SendExpire(p)
    \/ \E p \in Procs : SendNotify(p)
    \/ \E s \in Subs, m \in Nameable : WsUpgrade(s, m)
    \/ \E s \in Subs : WsSubscribe(s)
    \/ \E s \in Subs : WsForward(s)

PushSpec == PairedInit /\ [][PushNext]_vars

\* PushSpec under fair scheduling of the spawned handle_ws tasks: a task that
\* can subscribe or can run a turn of its forwarding loop eventually does.
PushFairSpec ==
    /\ PushSpec
    /\ \A s \in Subs : WF_vars(WsSubscribe(s)) /\ WF_vars(WsForward(s))

\* The paired mailboxes with sends and websocket clients, where the store
\* may be unreachable when an upgrade request arrives.
WsFaultNext ==
    \/ PushNext
    \/ \E s \in Subs, m \in Nameable : WsUpgradeStoreError(s, m)

WsFaultSpec == PairedInit /\ [][WsFaultNext]_vars

\* ------------------------------------------------------------ shorthands

\* The stored MailboxState of a mailbox whose metadata key is present.
Meta(m) == Unwrap(get_mailbox_meta(metaKV, m))

\* The entries of a list key, parsed.
Entries(m) == ParseAll(LRange(listKV, m))

\* A response was sent in this step.
Replied == reply'.n # reply.n

\* Task p takes in a send request for mailbox m in this step.
SendArrives(p, m) ==
    /\ proc[p].pc = "idle"
    /\ ops' = ops + 1
    /\ \/ proc'[p].op = "send" /\ proc'[p].mbox = m
       \/ Replied /\ reply'.op = "send" /\ reply'.mbox = m /\ proc'[p].pc = "idle"

\* ------------------------------------------------------------------ claims

\* C1: of the joins that present the same rendezvous token, registered by one
\* init (the same generation of the mapping), at most one is answered 200,
\* under any interleaving.
C1_AtMostOneJoinSucceeds ==
    \A j1 \in joins, j2 \in joins :
        (j1.tok = j2.tok /\ j1.gen = j2.gen) => j1 = j2

\* C2: once a join with a token has been answered 200, every join with that
\* token that arrives later, with no save_rendezvous of the token in between
\* (late), is answered 404 InvalidToken in its first step, and that step
\* changes no mailbox metadata and no message list.
C2_LaterJoinFails ==
    [][ /\ \A p \in Procs : ~proc'[p].late
        /\ (Replied /\ reply'.op = "join" /\ reply'.late) =>
              /\ reply'.err = "InvalidToken"
              /\ reply'.status = 404
              /\ metaKV' = metaKV
              /\ listKV' = listKV ]_vars

\* C2 witness: a later join with a consumed token has been answered.
C2_Witness ==
    reply.op = "join" /\ reply.late /\ reply.status = 404

\* C3: for every join answered 200, while both mailboxes' metadata are stored,
\* the initiator A and the responder B point at each other and carry the same
\* expires_at, and the expires_at the join returned is the one the init of A
\* returned.
C3_PairLinked ==
    \A j \in joins :
        (j.initiator \in DOMAIN metaKV /\ j.mailbox_id \in DOMAIN metaKV) =>
            /\ Meta(j.initiator).peer_mailbox_id = Some(j.mailbox_id)
            /\ Meta(j.mailbox_id).peer_mailbox_id = Some(j.initiator)
            /\ Meta(j.initiator).expires_at_epoch_ms = Meta(j.mailbox_id).expires_at_epoch_ms
            /\ \E i \in inits :
                  /\ i.mailbox_id = j.initiator
                  /\ i.expires_at_epoch_ms = j.expires_at_epoch_ms

\* C4: an init whose token still has a mapping in the store is not answered
\* 200 (it is a 409 conflict) and save_rendezvous replaces no mapping: no
\* successful init found a mapping under its token.
C4_InitNeverReplacesMapping ==
    \A i \in inits : ~IsSome(i.replaced)

\* C5: when requests do not overlap and none is in progress, every list in
\* the store that holds N entries has the sequence values 0, 1, ..., N-1 in
\* list order, and the messages a recv returned are the entries of the list
\* in list order, as long as nothing was appended since.
C5_DenseSequences ==
    (\A p \in Procs : proc[p].pc = "idle") =>
        /\ \A m \in DOMAIN listKV :
              /\ Len(Entries(m)) = Len(listKV[m].items)
              /\ \A i \in 1..Len(Entries(m)) : Entries(m)[i].sequence = i - 1
        /\ \A m \in MailboxIds :
              IsSome(lastRecv[m]) =>
                  LET got == Unwrap(lastRecv[m]).body[1]
                  IN  /\ \A i \in 1..Len(got) : got[i].sequence = i - 1
                      /\ (m \in DOMAIN listKV /\ ~Unwrap(lastRecv[m]).removed)
                            => got = Entries(m)

\* The same for the lists of the mailboxes whose metadata is in the store.
DenseSequencesWhileStored ==
    /\ \A m \in DOMAIN listKV \cap DOMAIN metaKV :
          /\ Len(Entries(m)) = Len(listKV[m].items)
          /\ \A i \in 1..Len(Entries(m)) : Entries(m)[i].sequence = i - 1
    /\ \A m \in MailboxIds :
          IsSome(lastRecv[m]) =>
              LET got == Unwrap(lastRecv[m]).body[1]
              IN  /\ \A i \in 1..Len(got) : got[i].sequence = i - 1
                  /\ m \in DOMAIN listKV \cap DOMAIN metaKV => got = Entries(m)

\* C6: no list holds two entries written by send requests (non-empty
\* ciphertext) with the same sequence value.
C6_NoDuplicateSequence ==
    \A m \in DOMAIN listKV :
        \A i \in 1..Len(Entries(m)), j \in 1..Len(Entries(m)) :
            (i < j /\ Entries(m)[i].ciphertext_b64 # "" /\ Entries(m)[j].ciphertext_b64 # "")
                => Entries(m)[i].sequence # Entries(m)[j].sequence

\* C7: an entry whose send was answered 202 stays in the peer's list for as
\* long as the peer's metadata is in the store.
C7_AckedEntriesStay ==
    \A a \in acked :
        a[1] \in DOMAIN metaKV =>
            \E i \in 1..Len(LRange(listKV, a[1])) : LRange(listKV, a[1])[i] = a[2]

\* C8: a send on a mailbox whose stored metadata has no peer_mailbox_id is
\* answered 409 NoPeerConnected at once, appends to no list and notifies nobody.
C8_SendWithoutPeer ==
    [][ \A p \in Procs, m \in MailboxIds :
          ( /\ SendArrives(p, m)
            /\ m \in DOMAIN metaKV
            /\ ~IsSome(Meta(m).peer_mailbox_id) ) =>
              /\ Replied
              /\ reply'.err = "NoPeerConnected"
              /\ reply'.status = 409
              /\ listKV' = listKV
              /\ pushed' = pushed ]_vars

\* C8 witness: a send was refused for want of a peer.
C8_Witness ==
    reply.op = "send" /\ reply.err = "NoPeerConnected" /\ reply.mbox \in DOMAIN metaKV

\* Every entry written by a send carries a timestamp before the expires_at
\* its sender was issued.
SendEntriesBeforeExpiry ==
    \A m \in DOMAIN listKV :
        \A k \in 1..Len(Entries(m)) :
            LET e == Entries(m)[k]
            IN  e.ciphertext_b64 # "" =>
                  /\ \A i \in inits : i.mailbox_id = e.from_mailbox_id
                                        => e.timestamp_epoch_ms < i.expires_at_epoch_ms
                  /\ \A j \in joins : j.mailbox_id = e.from_mailbox_id
                                        => e.timestamp_epoch_ms < j.expires_at_epoch_ms

\* C9: a send on a paired mailbox whose metadata is still stored, arriving at
\* now >= expires_at, is answered 410 SessionExpired at once, appends to no
\* list and notifies nobody; and no entry written by a send has a timestamp at
\* or after its sender's expires_at.
C9_SendAfterExpiry ==
    /\ []SendEntriesBeforeExpiry
    /\ [][ \A p \in Procs, m \in MailboxIds :
             ( /\ SendArrives(p, m)
               /\ m \in DOMAIN metaKV
               /\ IsSome(Meta(m).peer_mailbox_id)
               /\ NowMs >= Meta(m).expires_at_epoch_ms ) =>
                 /\ Replied
                 /\ reply'.err = "SessionExpired"
                 /\ reply'.status = 410
                 /\ listKV' = listKV
                 /\ pushed' = pushed ]_vars

\* C9 witness: a send was refused as expired while its metadata was stored.
C9_Witness ==
    /\ reply.op = "send" /\ reply.err = "SessionExpired"
    /\ reply.mbox \in DOMAIN metaKV

\* Task p takes in a recv request, or finishes one, in this step.
RecvStep(p) ==
    \/ proc[p].pc = "r_lrange" /\ proc'[p].pc = "idle"
    \/ /\ proc[p].pc = "idle"
       /\ ops' = ops + 1
       /\ \/ proc'[p].op = "recv"
          \/ Replied /\ reply'.op = "recv" /\ proc'[p].pc = "idle"

\* C10 as claimed: a recv changes nothing in the store and notifies nobody,
\* and a recv answered 200 returns the same messages and last_sequence as the
\* previous recv of that mailbox answered 200, when no entry was appended to
\* the mailbox's list between the two.
C10_RecvIdempotent ==
    [][ \A p \in Procs :
          RecvStep(p) =>
              /\ store' = store
              /\ pushed' = pushed
              /\ (proc[p].pc = "r_lrange" /\ IsSome(lastRecv[proc[p].mbox])) =>
                    reply'.body = Unwrap(lastRecv[proc[p].mbox]).body ]_vars

\* C10 as amended: the same, when between the two recvs no entry was appended
\* to the mailbox's list and the list key was neither evicted by its TTL nor
\* deleted by a clear_mailbox_messages.
C10_RecvIdempotentWhileListKept ==
    [][ \A p \in Procs :
          RecvStep(p) =>
              /\ store' = store
              /\ pushed' = pushed
              /\ ( /\ proc[p].pc = "r_lrange"
                   /\ IsSome(lastRecv[proc[p].mbox])
                   /\ ~Unwrap(lastRecv[proc[p].mbox]).removed ) =>
                    reply'.body = Unwrap(lastRecv[proc[p].mbox]).body ]_vars

\* C10 witness: the same body was returned by two recvs in a row, it holds a
\* message, and the list was kept since.
C10_Witness ==
    \E m \in MailboxIds :
        /\ IsSome(lastRecv[m])
        /\ Unwrap(lastRecv[m]).times >= 2
        /\ ~Unwrap(lastRecv[m]).removed
        /\ Unwrap(lastRecv[m]).body[1] # <<>>

\* C11: every payload the Push Hub was notified with for a mailbox was
\* appended to that mailbox's list before; and a request that ends with a store
\* error (500) notifies nobody in that step or later.
C11_StoreBeforeNotify ==
    /\ [](\A i \in 1..Len(pushed) : pushed[i] \in appended)
    /\ [][ (Replied /\ reply'.status = 500) => (pushed' = pushed /\ subs' = subs) ]_vars

\* C11 witness: a notification was issued, and a later send was aborted by a
\* store error and left no notification behind.
C11_Witness ==
    /\ Len(pushed) = 1
    /\ reply.op = "send" /\ reply.status = 500
    /\ \A p \in Procs : proc[p].pc = "idle"

\* C12: a recv of an initiator's mailbox, answered after a join of that
\* mailbox was answered 200, before any send has appended an entry and while
\* the mailbox's list key is in the store, returns exactly one message: from
\* the responder of that join, with empty ciphertext and sequence 0.
C12_RecvAfterJoin ==
    [][ \A p \in Procs :
          ( /\ proc[p].pc = "r_lrange" /\ proc'[p].pc = "idle"
            /\ proc[p].mbox \in DOMAIN listKV
            /\ \E j \in joins : j.initiator = proc[p].mbox
            /\ \A a \in appended : a[2][2] = "" ) =>
              LET got == reply'.body[1]
              IN  /\ Len(got) = 1
                  /\ \E j \in joins : /\ j.initiator = proc[p].mbox
                                      /\ got[1].from_mailbox_id = j.mailbox_id
                  /\ got[1].ciphertext_b64 = ""
                  /\ got[1].sequence = 0 ]_vars

\* C13: when a join is answered, every websocket client whose upgrade on the
\* initiator's mailbox had succeeded before the join arrived is sent exactly
\* one more frame in the notifying step, equal to the serialized "peer joined"
\* entry the join appended to the initiator's list.
C13_SubscriberGetsJoinFrame ==
    [][ \A p \in Procs :
          (proc[p].pc = "j_notify" /\ proc'[p].pc = "idle") =>
              \A s \in proc[p].early :
                  subs[s].mbox = proc[p].id =>
                      /\ Received(subs'[s]) =
                            Append(Received(subs[s]), SerializeMessage(join_msg(p)))
                      /\ <<proc[p].id, SerializeMessage(join_msg(p))>> \in appended ]_vars

\* C14: a websocket upgrade request for a mailbox id whose metadata is not in
\* the store is answered 404, and the step creates no channel slot and changes
\* no websocket client.
C14_UpgradeUnknownMailbox ==
    [][ ( /\ Replied
          /\ reply'.op = "ws"
          /\ reply'.mbox \notin DOMAIN metaKV ) =>
            /\ reply'.status = 404
            /\ channels' = channels
            /\ subs' = subs ]_vars

\* C14 witness: an upgrade was refused for a mailbox that had been minted and
\* whose metadata is gone, while another mailbox has a channel slot.
C14_Witness ==
    /\ reply.op = "ws" /\ reply.status = 404
    /\ reply.mbox \in known
    /\ channels # {}

\* The expires_at values issued for mailbox m: the one in its stored metadata
\* and the ones the init and join responses returned for it.
ExpiresAt(m) ==
    {Meta(k).expires_at_epoch_ms : k \in {m} \cap DOMAIN metaKV}
        \cup {i.expires_at_epoch_ms : i \in {x \in inits : x.mailbox_id = m}}
        \cup {j.expires_at_epoch_ms : j \in {x \in joins : x.mailbox_id = m}}

\* C15: at every time at or after a mailbox's expires_at, neither its metadata
\* key nor its list key is in the store.
C15_KeysGoneAtExpiry ==
    \A m \in DOMAIN metaKV \cup DOMAIN listKV :
        \A e \in ExpiresAt(m) : NowMs < e

\* C16: the rendezvous mapping written by an init is gone from the store no
\* later than the expires_at of the initiator mailbox it points at: its TTL
\* is no longer than the mailbox TTL.
C16_MappingGoneAtExpiry ==
    \A tok \in DOMAIN rdvKV :
        \A e \in ExpiresAt(rdvKV[tok].val) :
            /\ NowMs < e
            /\ rdvKV[tok].exp * MsPerSec <= e

\* C17: no step replaces a stored peer_mailbox_id that is present by another
\* value or by none.
C17_PeerSetOnce ==
    [][ \A m \in DOMAIN metaKV \cap DOMAIN metaKV' :
          IsSome(Meta(m).peer_mailbox_id) =>
              Unwrap(get_mailbox_meta(metaKV', m)).peer_mailbox_id
                  = Meta(m).peer_mailbox_id ]_vars

\* C18: in every state, a stored mailbox whose peer_mailbox_id is P has P's
\* metadata in the store, pointing back at it and with the same expires_at.
C18_PeersConsistent ==
    \A m \in DOMAIN metaKV :
        IsSome(Meta(m).peer_mailbox_id) =>
            LET P == Unwrap(Meta(m).peer_mailbox_id)
            IN  /\ P \in DOMAIN metaKV
                /\ Meta(P).peer_mailbox_id = Some(m)
                /\ Meta(P).expires_at_epoch_ms = Meta(m).expires_at_epoch_ms

\* C19: in every state, every metadata key, list key and rendezvous key in the
\* store has a TTL that is still running.
C19_EveryKeyHasTtl ==
    /\ \A m \in DOMAIN metaKV : metaKV[m].exp > now
    /\ \A t \in DOMAIN rdvKV : rdvKV[t].exp > now
    /\ \A m \in DOMAIN listKV : IsSome(listKV[m].exp) /\ Unwrap(listKV[m].exp) > now

\* The list keys other than m are the same, with the same content and TTL,
\* before and after the step.
OtherListsUnchanged(m) ==
    /\ DOMAIN listKV' \ {m} = DOMAIN listKV \ {m}
    /\ \A k \in DOMAIN listKV \ {m} : listKV'[k] = listKV[k]

\* C20: every step of a send that passed its checks leaves all metadata, all
\* rendezvous mappings and every list but the one of the peer it read
\* unchanged; its RPUSH step extends the peer's list at the end by exactly
\* one entry with from_mailbox_id = M and ciphertext_b64 = c, and no other
\* step of it changes the entries of that list; its last step notifies the
\* peer mailbox only, and only websocket clients of the peer get a frame.
C20_SendFrame ==
    [][ \A p \in Procs :
          (proc[p].op = "send" /\ proc'[p] # proc[p]) =>
              LET peer == proc[p].peer
                  old  == Entries(peer)
                  new  == ParseAll(LRange(listKV', peer))
              IN  /\ metaKV' = metaKV
                  /\ rdvKV' = rdvKV
                  /\ OtherListsUnchanged(peer)
                  /\ IF proc[p].pc = "s_rpush"
                     THEN /\ Len(new) = Len(old) + 1
                          /\ SubSeq(new, 1, Len(old)) = old
                          /\ new[Len(new)].from_mailbox_id = proc[p].mbox
                          /\ new[Len(new)].ciphertext_b64 = proc[p].ct
                     ELSE new = old
                  /\ IF proc[p].pc = "s_notify"
                     THEN /\ Len(pushed') = Len(pushed) + 1
                          /\ pushed'[Len(pushed')][1] = peer
                          /\ reply'.status = 202
                          /\ \A s \in Subs : subs'[s] # subs[s] => subs[s].mbox = peer
                     ELSE pushed' = pushed /\ subs' = subs ]_vars

\* C20 witness: a send was answered 202 and a websocket client of the peer
\* mailbox was sent its entry as the latest frame.
C20_Witness ==
    /\ reply.op = "send" /\ reply.status = 202
    /\ \E s \in Subs :
          /\ Received(subs[s]) # <<>>
          /\ Received(subs[s])[Len(Received(subs[s]))][1] = reply.mbox
          /\ Received(subs[s])[Len(Received(subs[s]))][2] = reply.ct

\* C21: an init request whose client_id is not in the session registry, or
\* whose session_token differs from the registered one, is answered 401 and
\* creates no mailbox metadata, no message list and no rendezvous mapping.
InitArrives(c, st) ==
    /\ ops' = ops + 1
    /\ Replied
    /\ reply'.op = "init"
    /\ reply'.client = c
    /\ reply'.session = st

C21_UnauthorizedInit ==
    [][\A c \in ClientIds, st \in SessionTokens :
          (/\ InitArrives(c, st)
           /\ \/ c \notin DOMAIN clients
              \/ clients[c].session_token # st)
          => /\ reply'.status = 401
             /\ store' = store
             /\ proc' = proc
             /\ nextId' = nextId]_vars

\* C27: when a join stops (crash or store error) after it consumed the
\* rendezvous mapping and before it wrote any metadata, the initiator mailbox
\* has no peer_mailbox_id, no mailbox names it as its peer, and the mapping is
\* gone, so that every later join with the token is answered InvalidToken.
JoinStopsAfterTake(p) ==
    /\ proc[p].op = "join"
    /\ proc[p].pc = "j_get_meta"
    /\ proc'[p].pc = "idle"
    /\ reply' = reply \/ reply'.err = "Redis"

C27_JoinFailsClosed ==
    [][\A p \in Procs :
          JoinStopsAfterTake(p)
          => /\ proc[p].id \in DOMAIN metaKV'
                => ~IsSome(Unwrap(get_mailbox_meta(metaKV', proc[p].id)).peer_mailbox_id)
             /\ \A m \in DOMAIN metaKV' :
                   Unwrap(get_mailbox_meta(metaKV', m)).peer_mailbox_id # Some(proc[p].id)
             /\ \/ proc[p].tok \notin DOMAIN rdvKV'
                \/ tokGen'[proc[p].tok] > proc[p].gen]_vars

\* C28: a join whose token resolves to an initiator mailbox that already has
\* a peer_mailbox_id is answered SessionAlreadyPaired (409), draws no
\* responder mailbox id, changes no store key and triggers no notification.
C28_JoinAlreadyPaired ==
    [][\A p \in Procs :
          (/\ proc[p].op = "join"
           /\ proc[p].pc = "j_get_meta"
           /\ proc'[p] # proc[p]
           /\ proc[p].id \in DOMAIN metaKV
           /\ IsSome(Meta(proc[p].id).peer_mailbox_id))
          => /\ Replied
             /\ reply'.op = "join"
             /\ reply'.err = "SessionAlreadyPaired"
             /\ reply'.status = 409
             /\ store' = store
             /\ nextId' = nextId
             /\ pushed' = pushed
             /\ hub' = hub]_vars

C28_Witness ==
    /\ reply.op = "join"
    /\ reply.err = "SessionAlreadyPaired"
    /\ reply.status = 409

\* C29: a join that found a rendezvous mapping has deleted it by the time it
\* is answered, whatever the answer (200, MailboxNotFound,
\* SessionAlreadyPaired); a join that finds no mapping is answered
\* InvalidToken and changes nothing in the store.
JoinArrives(tok) ==
    /\ ops' = ops + 1
    /\ \E p \in Procs :
          /\ proc[p].pc = "idle"
          /\ \/ proc'[p].op = "join" /\ proc'[p].tok = tok
             \/ Replied /\ reply'.op = "join" /\ reply'.tok = tok

C29_JoinDeletesMapping ==
    [][/\ \A tok \in Tokens :
             (JoinArrives(tok) /\ ~IsSome(rendezvous_get(rdvKV, tok)))
             => /\ Replied
                /\ reply'.err = "InvalidToken"
                /\ store' = store
       /\ \A p \in Procs :
             (/\ proc[p].op = "join"
              /\ proc[p].pc # "j_del"
              /\ proc'[p].pc = "idle"
              /\ Replied
              /\ reply'.err \in {"Ok", "MailboxNotFound", "SessionAlreadyPaired"})
             => \/ proc[p].tok \notin DOMAIN rdvKV'
                \/ tokGen'[proc[p].tok] > proc[p].gen]_vars

C29_Witness ==
    /\ reply.op = "join"
    /\ reply.err = "MailboxNotFound"
    /\ reply.tok \notin DOMAIN rdvKV

\* C30: a store error on a read step (get_mailbox_meta, LLEN, LRANGE) is
\* retried: the request is not answered with an internal error because one
\* read failed.
ReadSteps == {"j_get_meta", "j_llen", "s_llen", "r_lrange"}

C30_ReadRetriedOnce ==
    [][\A p \in Procs :
          proc[p].pc \in ReadSteps
          => ~(proc'[p].pc = "idle" /\ Replied /\ reply'.err = "Redis")]_vars

\* C22: the last_sequence of every recv answered 200 is the maximum sequence
\* among the messages it returns, and 0 when it returns none.
MaxSequence(msgs) ==
    IF msgs = <<>> THEN 0
    ELSE CHOOSE n \in {msgs[i].sequence : i \in DOMAIN msgs} :
            \A i \in DOMAIN msgs : msgs[i].sequence <= n

C22_LastSequenceIsMax ==
    \A m \in MailboxIds :
        IsSome(lastRecv[m]) =>
            Unwrap(lastRecv[m]).body[2] = MaxSequence(Unwrap(lastRecv[m]).body[1])

\* C23: the notifications a websocket client of a mailbox is handed are in
\* the order in which their entries were appended to the mailbox's list: of
\* two different entries that are in the list once each, the one handed over
\* first is the earlier one in the list.
Positions(seq, x) == {i \in DOMAIN seq : seq[i] = x}

C23_NotifyInAppendOrder ==
    \A s \in Subs :
        LET got  == Received(subs[s])
            list == LRange(listKV, subs[s].mbox)
        IN  \A i, j \in DOMAIN got :
                (/\ i < j
                 /\ got[i] # got[j]
                 /\ Cardinality(Positions(list, got[i])) = 1
                 /\ Cardinality(Positions(list, got[j])) = 1)
                => \A a \in Positions(list, got[i]), b \in Positions(list, got[j]) : a < b

\* C24: what a websocket client is handed is a subsequence of the payloads
\* passed to notify for its own mailbox after it subscribed: each at most
\* once, none of another mailbox, none notified before the subscription.
RECURSIVE IsSubseq(_, _)
IsSubseq(a, b) ==
    IF a = <<>> THEN TRUE
    ELSE IF b = <<>> THEN FALSE
    ELSE IF Head(a) = Head(b) THEN IsSubseq(Tail(a), Tail(b))
    ELSE IsSubseq(a, Tail(b))

RECURSIVE PayloadsFor(_, _)
PayloadsFor(calls, m) ==
    IF calls = <<>> THEN <<>>
    ELSE IF Head(calls)[1] = m
         THEN <<Head(calls)[2]>> \o PayloadsFor(Tail(calls), m)
         ELSE PayloadsFor(Tail(calls), m)

NotifiedSince(k, m) == PayloadsFor(SubSeq(pushed, k + 1, Len(pushed)), m)

C24_AtMostOncePerSubscription ==
    \A s \in Subs :
        IF subs[s].pc \in {"subscribed", "closed"}
        THEN IsSubseq(Received(subs[s]), NotifiedSince(subs[s].subscribedAt, subs[s].mbox))
        ELSE Received(subs[s]) = <<>>

C24_Witness ==
    \E s, t \in Subs :
        /\ subs[s].pc = "subscribed" /\ subs[t].pc = "subscribed"
        /\ subs[s].mbox # subs[t].mbox
        /\ subs[s].frames # <<>>
        /\ Received(subs[t]) = <<>>
        /\ Len(pushed) > 1

\* C26: notify never waits for a subscriber and touches no store key: a send
\* that is about to notify can always do so, also when a receiver of the
\* mailbox already holds ChannelCapacity unread values, and that step answers
\* the request and marks the receiver lagged; a lagged receiver is sent no
\* further frame, and the next turn of its forwarding loop ends the loop.
NotifiesFull(s) ==
    /\ pushed' # pushed
    /\ subs[s].pc = "subscribed"
    /\ subs[s].mbox = pushed'[Len(pushed')][1]
    /\ Len(subs[s].queue) = ChannelCapacity

C25_EverythingForwarded ==
    \A s \in Subs :
        <>[]((subs[s].pc \in {"upgraded", "subscribed"} /\ ~subs[s].lagged)
             => subs[s].frames = NotifiedSince(subs[s].upgradedAt, subs[s].mbox))

\* Task p takes a step of an init that creates mailbox m.
InitStep(p, m) ==
    /\ proc'[p] # proc[p]
    /\ \/ proc[p].op = "init" /\ proc[p].id = m
       \/ proc[p].pc = "idle" /\ proc'[p].op = "init" /\ proc'[p].id = m

\* No step of the init touches the metadata or the list of another mailbox.
InitLeavesOthers(m) ==
    /\ DOMAIN metaKV' \ {m} = DOMAIN metaKV \ {m}
    /\ \A k \in DOMAIN metaKV \ {m} : metaKV'[k] = metaKV[k]
    /\ OtherListsUnchanged(m)

\* The mapping and the empty list an init answered 200 leaves behind.
InitLeavesMappingAndEmptyList(p) ==
    /\ reply'.status = 200
    /\ reply'.body[1] = proc[p].id
    /\ rendezvous_get(rdvKV', proc[p].tok) = Some(proc[p].id)
    /\ ParseAll(LRange(listKV', proc[p].id)) = <<>>
    /\ last_sequence(ParseAll(LRange(listKV', proc[p].id))) = 0

\* The metadata an init leaves behind: no peer, expires_at = created_at + TTL.
InitMetaStored(p) ==
    /\ IsSome(get_mailbox_meta(metaKV', proc[p].id))
    /\ LET st == Unwrap(get_mailbox_meta(metaKV', proc[p].id))
       IN  /\ st.mailbox_id = proc[p].id
           /\ st.peer_mailbox_id = None
           /\ st.expires_at_epoch_ms = st.created_at_epoch_ms + mailbox_ttl_secs * MsPerSec

\* C31 as claimed: when an init(T) is answered 200 with mailbox M, M's metadata
\* is stored with no peer and expires_at = created_at + mailbox TTL, M's list is
\* empty, T maps to M, and no step of the init changed the metadata or the list
\* of another mailbox.
C31_InitFrame ==
    [][\A p \in Procs :
          /\ \A m \in MailboxIds : InitStep(p, m) => InitLeavesOthers(m)
          /\ (proc[p].pc = "i_save_rdv" /\ proc'[p].pc = "idle")
             => InitLeavesMappingAndEmptyList(p) /\ InitMetaStored(p)]_vars

\* C31 as amended: the same, with M's metadata stored as long as the mailbox
\* TTL has not run out since the init wrote it.
C31_InitFrameBeforeExpiry ==
    [][\A p \in Procs :
          /\ \A m \in MailboxIds : InitStep(p, m) => InitLeavesOthers(m)
          /\ (proc[p].pc = "i_save_rdv" /\ proc'[p].pc = "idle")
             => /\ InitLeavesMappingAndEmptyList(p)
                /\ NowMs < proc[p].st.expires_at_epoch_ms => InitMetaStored(p)
                /\ proc[p].id \in DOMAIN metaKV' => InitMetaStored(p)]_vars

\* C31 witness: a second init was answered 200 while the first mailbox's keys
\* are in the store, its own metadata included.
C31_Witness ==
    /\ reply.op = "init" /\ reply.status = 200
    /\ reply.body[1] \in DOMAIN metaKV
    /\ \E m \in DOMAIN metaKV : m # reply.body[1]

\* C32: a send, recv or websocket upgrade that names a minted mailbox whose
\* metadata key is not in the store is answered MailboxNotFound (404); and a
\* metadata key enters the store only when an init or a join writes the
\* metadata of the mailbox id it has just drawn, so that a key evicted by its
\* TTL (the only way a key leaves) never comes back.
NamesEvicted(m) ==
    /\ m \in known
    /\ m \notin DOMAIN metaKV
    /\ ops' = ops + 1

FirstWriteOf(m) ==
    \E p \in Procs :
        \/ proc[p].pc = "i_save_meta" /\ proc[p].id = m
        \/ proc[p].pc = "j_save_resp" /\ proc[p].peer = m

C32_EvictedStaysGone ==
    [][\A m \in MailboxIds :
          /\ NamesEvicted(m)
             => /\ \A p \in Procs :
                      ~(proc'[p].op \in {"send", "recv"} /\ proc'[p].mbox = m
                        /\ proc[p].pc = "idle")
                /\ \A x \in Subs : ~(subs[x].pc = "none" /\ subs'[x].pc = "upgraded"
                                     /\ subs'[x].mbox = m)
                /\ (Replied /\ reply'.op \in {"send", "recv", "ws"} /\ reply'.mbox = m)
                   => reply'.status = 404
          /\ (m \notin DOMAIN metaKV /\ m \in DOMAIN metaKV') => FirstWriteOf(m)]_vars

\* C33: a message list is never evicted by its TTL while the metadata of its
\* mailbox stays in the store: when a list key leaves the store as time
\* passes, the metadata key of the same mailbox is not in the store afterwards.
C33_ListOutlivesMetadata ==
    [][\A m \in MailboxIds :
          (now' # now /\ m \in DOMAIN listKV /\ m \notin DOMAIN listKV')
          => m \notin DOMAIN metaKV']_vars

\* C34: a websocket upgrade request whose metadata lookup fails with a store
\* error is answered with HTTP 500.
C34_WsStoreError500 ==
    (reply.op = "ws" /\ reply.err = "Redis") => reply.status = 500

\* C35: every entry stored in the list of a mailbox was sent by the peer its
\* metadata names: from_mailbox_id of the entry equals the stored
\* peer_mailbox_id of that mailbox.
C35_EntriesFromStoredPeer ==
    \A m \in DOMAIN listKV \cap DOMAIN metaKV :
        \A i \in 1..Len(Entries(m)) :
            Meta(m).peer_mailbox_id = Some(Entries(m)[i].from_mailbox_id)

\* The send of task p has run its RPUSH and the entry is in the peer's list.
SendEntryStored(p) ==
    /\ proc[p].pc \in {"s_expire", "s_notify"}
    /\ proc[p].peer \in DOMAIN listKV'
    /\ \E i \in 1..Len(ParseAll(LRange(listKV', proc[p].peer))) :
           ParseAll(LRange(listKV', proc[p].peer))[i] = send_msg(p)

\* C36: when a send is answered with a failure status, the step that answers
\* changes no list and issues no notification, and no entry of that request
\* is in the peer's list.
C36_FailedSendLeavesLists ==
    [][(Replied /\ reply'.op = "send" /\ reply'.status \in {404, 409, 410, 500}) =>
          /\ listKV' = listKV
          /\ pushed' = pushed
          /\ \A p \in Procs :
                (proc[p].op = "send" /\ proc[p].pc # "idle" /\ proc'[p].pc = "idle")
                => ~SendEntryStored(p)]_vars

\* A client whose last heartbeat is less than session_ttl old.
Live(c) == c \in DOMAIN clients /\ now - clients[c].last_heartbeat < SessionTtlSecs

\* An init request passes verify_session and init_connection starts.
InitPasses(p) == proc[p].pc = "idle" /\ proc'[p].op = "init" /\ proc'[p].pc # "idle"

\* C37: verify_session accepts an init only for a live session: whenever an
\* init passes the session check, the registry holds a client whose last
\* heartbeat is less than session_ttl old.
C37_InitOnlyForLiveSession ==
    [][(\E p \in Procs : InitPasses(p)) => \E c \in ClientIds : Live(c)]_vars

\* C38: once pruning has removed a client, the message queue holds no
\* envelope sent by that client and none addressed to it.
C38_NoEnvelopeOfPrunedClient ==
    \A i \in 1..Len(messages) :
        messages[i].from \notin pruned /\ messages[i].to \notin pruned

\* C39: after every sequence of init, join, send and recv requests the
\* crate's handlers and the inline handlers have given the same status and
\* body to the last request, hold the same store contents and have issued
\* the same notifications.
C39_SameAsInlineHandlers == twin.crate = twin.legacy

\* The two servers agree on everything but the text of an error message.
SameButMessage ==
    /\ [twin.crate EXCEPT !.body = <<>>] = [twin.legacy EXCEPT !.body = <<>>]
    /\ twin.crate.status \in {200, 202} => twin.crate.body = twin.legacy.body

\* The file at a final path holds as many bytes as the Metadata message
\* declared, and their SHA-256 is the declared one.
Intact(f) ==
    /\ Len(f.content) = Unwrap(xfer.metadata).size
    /\ hex_encode(Sha256(f.content)) = Unwrap(xfer.metadata).sha256

\* C40: receive_file puts data at a final path only when it returns Ok and
\* the data has the declared size and the declared SHA-256; when it returns
\* an error no file is at a final path, and a transfer it accepted ends
\* either with the file at its final path or with an error.
C40_FinalOnlyIfIntact ==
    /\ \A f \in xfer.final : xfer.pc = "ok" /\ Intact(f)
    /\ xfer.pc = "failed" => xfer.final = {}
    /\ (xfer.pc = "ok" /\ IsSome(xfer.metadata)) => xfer.final # {}

====
